---------------------------- MODULE Spec2Model ----------------------------
(***************************************************************************)
(* A model of src/srf/boolean.cpp: the Boolean union / difference /       *)
(* assembly of two shells of trimmed surfaces.                             *)
(*                                                                         *)
(* The module holds several specifications over one set of variables:     *)
(*   SpecKeep   the keep policy (KeepRegion, KeepEdge) applied to inputs   *)
(*              drawn from the classification enumerations;                *)
(*   SpecSplit  SCurve::MakeCopySplitAgainst, one pwl segment per step;    *)
(*   Spec       the orchestrators MakeFromBoolean and MakeFromAssemblyOf;  *)
(*   SpecLive   Spec with the chain loops of MakeCopyTrimAgainst running   *)
(*              on, for termination;                                       *)
(*   SpecBsp    SBspUv::From, one inserted edge per step, then the queries *)
(*              ClassifyPoint and MinimumDistanceToEdge on the tree;       *)
(*   SpecEdges  the edge-list routines of MakeCopyTrimAgainst applied to   *)
(*              edge lists drawn from a small set.                         *)
(* Variables that a specification does not use stay at their idle value.  *)
(***************************************************************************)
EXTENDS Integers, Sequences, FiniteSets, TLC

VARIABLES
    kpc,        \* keep policy: position ("args", "called")
    kin,        \* keep policy: the arguments of the calls
    kout,       \* keep policy: the values the calls returned
    spc,        \* splitter: position ("idle", "loop", "emitted", "done")
    cpts,       \* splitter: this->pts, the pwl of the curve being split
    ret,        \* splitter: ret.pts
    prev,       \* splitter: the outer prev, the pwl point before p
    si,         \* splitter: the index in cpts of p
    nret,       \* splitter: ret.pts.n when the current loop turn began
    il,         \* splitter: the intersection list of the last segment, as
                \*           the refinement loop left it (tags included)
    op,         \* orchestrator: "UNION", "DIFFERENCE" or "ASSEMBLY"
    pc,         \* orchestrator: position, the loop that is running
    sha,        \* orchestrator: the operand shell a
    shb,        \* orchestrator: the operand shell b
    into,       \* orchestrator: the result shell, this
    idx,        \* orchestrator: the turn of the running loop
    loc,        \* orchestrator: the locals of MakeCopyTrimAgainst
    hist,       \* orchestrator: what the run has done so far
    upc,        \* uv-bsp: position ("args", "insert", "built", "asked",
                \*         "measured")
    uel,        \* uv-bsp: the edge list passed to From
    usrf,       \* uv-bsp: the magnitudes of the surface's tangents
    uwork,      \* uv-bsp: the work list of From after std::sort
    uk,         \* uv-bsp: the index in uwork of the edge to insert next
    utree,      \* uv-bsp: the arena of the tree built so far
    uq,         \* uv-bsp: the last query and what it returned
    epc,        \* edge lists: position ("args", "called")
    ein,        \* edge lists: the arguments of the call
    eout        \* edge lists: what the call returned

kvars == <<kpc, kin, kout>>

svars == <<spc, cpts, ret, prev, si, nret, il>>

bvars == <<op, pc, sha, shb, into, idx, loc, hist>>

uvars == <<upc, uel, usrf, uwork, uk, utree, uq>>

evars == <<epc, ein, eout>>

vars == <<kpc, kin, kout, spc, cpts, ret, prev, si, nret, il,
          op, pc, sha, shb, into, idx, loc, hist,
          upc, uel, usrf, uwork, uk, utree, uq, epc, ein, eout>>

(***************************************************************************)
(* Enumerations                                                            *)
(***************************************************************************)
\* SSurface::CombineAs, as used by MakeFromBoolean
CombineAs == {"UNION", "DIFFERENCE"}

\* SShell::Class
ShellClass == {"INSIDE", "OUTSIDE", "COINC_SAME", "COINC_OPP"}

\* The values the orig-side arguments take at the two call sites of KeepEdge
OrigClass == {"INSIDE", "OUTSIDE"}

\* SBspUv::Class
BspClass == {"INSIDE", "OUTSIDE", "EDGE_PARALLEL", "EDGE_ANTIPARALLEL", "EDGE_OTHER"}

(***************************************************************************)
(* Keep policy                                                             *)
(***************************************************************************)
\* KeepRegion with the COINC_SAME alternative of operand B lost
KeepRegion_NoSame(type, opA, shell, orig) ==
    LET inShell == (shell = "INSIDE")
        inSame  == (shell = "COINC_SAME")
        inOpp   == (shell = "COINC_OPP")
        inOrig  == (orig = "INSIDE")
        inFace  == inSame \/ inOpp
    IN  IF ~inOrig THEN FALSE
        ELSE CASE type = "UNION" -> (~inShell /\ ~inFace)
               [] type = "DIFFERENCE" ->
                    IF opA THEN (~inShell /\ ~inFace)
                    ELSE (inShell /\ ~inFace)

\* KeepRegion that treats a difference as a union
KeepRegion_DiffAsUnion(type, opA, shell, orig) ==
    LET inShell == (shell = "INSIDE")
        inSame  == (shell = "COINC_SAME")
        inOpp   == (shell = "COINC_OPP")
        inOrig  == (orig = "INSIDE")
        inFace  == inSame \/ inOpp
    IN  IF ~inOrig THEN FALSE
        ELSE IF opA THEN (~inShell /\ ~inFace)
        ELSE (~inShell /\ ~inFace) \/ inSame

KeepRegion(type, opA, shell, orig) ==
    LET inShell == (shell = "INSIDE")
        inSame  == (shell = "COINC_SAME")
        inOpp   == (shell = "COINC_OPP")
        inOrig  == (orig = "INSIDE")
        inFace  == inSame \/ inOpp
    IN  IF ~inOrig THEN FALSE
        ELSE CASE type = "UNION" ->
                    IF opA THEN (~inShell /\ ~inFace)
                    ELSE (~inShell /\ ~inFace) \/ inSame
               [] type = "DIFFERENCE" ->
                    IF opA THEN (~inShell /\ ~inFace)
                    ELSE (inShell /\ ~inFace) \/ inSame

\* KeepEdge that forgets to look at the out-normal side
KeepEdge_InOnly(type, opA, indir_shell, outdir_shell, indir_orig, outdir_orig) ==
    KeepRegion(type, opA, indir_shell, indir_orig)

KeepEdge(type, opA, indir_shell, outdir_shell, indir_orig, outdir_orig) ==
    LET keepIn  == KeepRegion(type, opA, indir_shell,  indir_orig)
        keepOut == KeepRegion(type, opA, outdir_shell, outdir_orig)
    IN  IF keepIn /\ ~keepOut THEN TRUE ELSE FALSE

\* The arguments a call of KeepEdge can receive
KeepArgs ==
    [type : CombineAs, opA : BOOLEAN,
     indir_shell : ShellClass, outdir_shell : ShellClass,
     indir_orig : OrigClass, outdir_orig : OrigClass]

NoKeepOut == [regionIn |-> FALSE, regionOut |-> FALSE, edge |-> FALSE, swapped |-> FALSE]

KeepIdle ==
    /\ kpc = "idle"
    /\ kin = [type |-> "UNION", opA |-> TRUE,
              indir_shell |-> "OUTSIDE", outdir_shell |-> "OUTSIDE",
              indir_orig |-> "OUTSIDE", outdir_orig |-> "OUTSIDE"]
    /\ kout = NoKeepOut

SplitIdle ==
    /\ spc = "off"
    /\ cpts = <<>>
    /\ ret = <<>>
    /\ prev = <<>>
    /\ si = 0
    /\ nret = 0
    /\ il = <<>>

\* A shell with no curve and no surface
EmptyShell == [curve |-> <<>>, surface |-> <<>>, booleanFailed |-> FALSE]

\* No call of MakeCopyTrimAgainst is running
NoLoc ==
    [step |-> "call", ret |-> <<>>, orig |-> <<>>, inter |-> <<>>,
     final |-> <<>>, choosing |-> {}, origBsp |-> FALSE,
     orig0 |-> <<>>, inter0 |-> <<>>, chains |-> <<>>]

\* Nothing has been done
NoHist == [failed |-> 0, trimmed |-> 0, nmeet |-> 0, allOutside |-> TRUE]

BoolIdle ==
    /\ op = "NONE"
    /\ pc = "off"
    /\ sha = EmptyShell
    /\ shb = EmptyShell
    /\ into = EmptyShell
    /\ idx = 0
    /\ loc = NoLoc
    /\ hist = NoHist

\* No query has been made of the uv-bsp
NoQuery == [node |-> 0, p |-> <<0, 0>>, eb |-> <<0, 0>>, cls |-> "NONE",
            dist |-> [inf |-> TRUE, n |-> 0, d |-> 1]]

BspIdle ==
    /\ upc = "off"
    /\ uel = <<>>
    /\ usrf = [mu |-> 1, mv |-> 1]
    /\ uwork = <<>>
    /\ uk = 0
    /\ utree = <<>>
    /\ uq = NoQuery

\* No edge-list routine has been called
NoEdgesOut == [choosing |-> {}, chain |-> <<>>, src |-> <<>>, trims |-> <<>>]

EdgesIdle ==
    /\ epc = "off"
    /\ ein = [fn |-> "none", el |-> <<>>, inter |-> <<>>, avoid |-> {}]
    /\ eout = NoEdgesOut

KeepInit ==
    /\ kpc = "args"
    /\ kin \in KeepArgs
    /\ kout = NoKeepOut
    /\ SplitIdle
    /\ BoolIdle
    /\ BspIdle
    /\ EdgesIdle

\* One evaluation of the policy on kin: both regions, the edge, and the edge
\* with the two shell classifications exchanged.
CallKeep ==
    /\ kpc = "args"
    /\ kpc' = "called"
    /\ kout' = [regionIn  |-> KeepRegion(kin.type, kin.opA, kin.indir_shell, kin.indir_orig),
                regionOut |-> KeepRegion(kin.type, kin.opA, kin.outdir_shell, kin.outdir_orig),
                edge      |-> KeepEdge(kin.type, kin.opA, kin.indir_shell, kin.outdir_shell,
                                       kin.indir_orig, kin.outdir_orig),
                swapped   |-> KeepEdge(kin.type, kin.opA, kin.outdir_shell, kin.indir_shell,
                                       kin.indir_orig, kin.outdir_orig)]
    /\ UNCHANGED kin
    /\ UNCHANGED svars
    /\ UNCHANGED bvars
    /\ UNCHANGED <<uvars, evars>>

KeepNext == CallKeep

SpecKeep == KeepInit /\ [][KeepNext]_vars

(***************************************************************************)
(* UV-BSP.  A tree is an arena (a sequence) of nodes; pos, neg and more    *)
(* are indices into it, 0 for a null pointer; the root, when the arena is  *)
(* not empty, is node 1 (the first one From allocates).  UV coordinates    *)
(* are integers, in units far larger than LENGTH_EPS, so that a scaled     *)
(* distance is below LENGTH_EPS exactly when it is zero.                   *)
(***************************************************************************)
NullBsp == <<>>

Minus(p, q) == <<p[1] - q[1], p[2] - q[2]>>

Plus(p, q) == <<p[1] + q[1], p[2] + q[2]>>

Dot(p, q) == p[1] * q[1] + p[2] * q[2]

\* Point2d::Normal
Normal(p) == <<p[2], -p[1]>>

\* SBspUv::ScalePoints on one point; srf.mu and srf.mv are the magnitudes
\* of the surface's tangents
Scale(p, srf) == <<p[1] * srf.mu, p[2] * srf.mv>>

\* SBspUv::ScaledSignedDistanceToLine times the (positive) length of the
\* scaled segment: same sign, and zero exactly when the distance is
\* below LENGTH_EPS
ScaledSignedDistanceToLine(pt, a, b, srf) ==
    LET n == Normal(Minus(Scale(b, srf), Scale(a, srf)))
    IN  Dot(Scale(pt, srf), n) - Dot(Scale(a, srf), n)

\* A distance, kept as the fraction n/d of its square; inf for VERY_POSITIVE
InfDist == [inf |-> TRUE, n |-> 0, d |-> 1]

Dist(n, d) == [inf |-> FALSE, n |-> n, d |-> d]

DistLess(x, y) ==
    IF x.inf THEN FALSE
    ELSE IF y.inf THEN TRUE
    ELSE x.n * y.d < y.n * x.d

DistMin(x, y) == IF DistLess(y, x) THEN y ELSE x

\* x < LENGTH_EPS
BelowEps(x) == ~x.inf /\ x.n = 0

\* x > tol, for an integer tol
DistAbove(x, tol) == x.inf \/ x.n > tol * tol * x.d

\* Point2d::DistanceToLine(p0, dp, asSegment)
DistanceToLine(p, p0, dp, asSegment) ==
    LET m  == Dot(dp, dp)
        tn == Dot(dp, Minus(p, p0))     \* t = tn / m
        cr == Dot(Minus(p, p0), Normal(dp))
    IN  IF m = 0 THEN InfDist
        ELSE IF asSegment /\ tn < 0 THEN Dist(Dot(Minus(p, p0), Minus(p, p0)), 1)
        ELSE IF asSegment /\ tn > m
             THEN Dist(Dot(Minus(p, Plus(p0, dp)), Minus(p, Plus(p0, dp))), 1)
        ELSE Dist(cr * cr, m)

\* SBspUv::ScaledDistanceToLine(pt, a, b, asSegment, srf); b is a direction
ScaledDistanceToLine(pt, a, b, asSegment, srf) ==
    DistanceToLine(Scale(pt, srf), Scale(a, srf), Scale(b, srf), asSegment)

RECURSIVE ClassifyOnChain(_, _, _, _, _)
\* The while(f) loop of ClassifyPoint over a node and its more chain:
\* the edge class when p lies on one of the segments, "NONE" otherwise
ClassifyOnChain(nodes, f, p, eb, srf) ==
    IF f = 0 THEN "NONE"
    ELSE LET ba == Minus(nodes[f].b, nodes[f].a)
         IN  IF BelowEps(ScaledDistanceToLine(p, nodes[f].a, ba, TRUE, srf))
             THEN IF BelowEps(ScaledDistanceToLine(eb, nodes[f].a, ba, FALSE, srf))
                  THEN IF Dot(ba, Minus(eb, p)) > 0
                       THEN "EDGE_PARALLEL"
                       ELSE "EDGE_ANTIPARALLEL"
                  ELSE "EDGE_OTHER"
             ELSE ClassifyOnChain(nodes, nodes[f].more, p, eb, srf)

RECURSIVE ClassifyPoint(_, _, _, _, _)
\* ClassifyPoint with the tie-break sent down the pos child
ClassifyPoint_TiePos(nodes, i, p, eb, srf) ==
    LET nd == nodes[i]
        dp == ScaledSignedDistanceToLine(p, nd.a, nd.b, srf)
    IN  IF dp = 0
        THEN LET c == ClassifyOnChain(nodes, i, p, eb, srf)
             IN  IF c # "NONE" THEN c
                 ELSE IF nd.pos # 0 THEN ClassifyPoint(nodes, nd.pos, p, eb, srf)
                 ELSE "INSIDE"
        ELSE IF dp > 0
        THEN IF nd.pos # 0 THEN ClassifyPoint(nodes, nd.pos, p, eb, srf) ELSE "INSIDE"
        ELSE IF nd.neg # 0 THEN ClassifyPoint(nodes, nd.neg, p, eb, srf) ELSE "OUTSIDE"

\* SBspUv::ClassifyPoint on node i of the arena
ClassifyPoint(nodes, i, p, eb, srf) ==
    LET nd == nodes[i]
        dp == ScaledSignedDistanceToLine(p, nd.a, nd.b, srf)
    IN  IF dp = 0
        THEN LET c == ClassifyOnChain(nodes, i, p, eb, srf)
             IN  IF c # "NONE" THEN c
                 ELSE IF nd.neg # 0 THEN ClassifyPoint(nodes, nd.neg, p, eb, srf)
                 ELSE "OUTSIDE"
        ELSE IF dp > 0
        THEN IF nd.pos # 0 THEN ClassifyPoint(nodes, nd.pos, p, eb, srf) ELSE "INSIDE"
        ELSE IF nd.neg # 0 THEN ClassifyPoint(nodes, nd.neg, p, eb, srf) ELSE "OUTSIDE"

RECURSIVE MinimumDistanceToEdge(_, _, _, _)
\* SBspUv::MinimumDistanceToEdge on node i of the arena
MinimumDistanceToEdge(nodes, i, p, srf) ==
    LET nd == nodes[i]
        dn == IF nd.neg # 0 THEN MinimumDistanceToEdge(nodes, nd.neg, p, srf) ELSE InfDist
        dp == IF nd.pos # 0 THEN MinimumDistanceToEdge(nodes, nd.pos, p, srf) ELSE InfDist
        as == Scale(nd.a, srf)
        bs == Scale(nd.b, srf)
        d  == DistanceToLine(Scale(p, srf), as, Minus(bs, as), TRUE)
    IN  DistMin(d, DistMin(dn, dp))

\* SBspUv::Alloc, with a and b set
NewNode(ea, eb) == [a |-> ea, b |-> eb, pos |-> 0, neg |-> 0, more |-> 0]

RECURSIVE InsertEdge(_, _, _, _, _)
RECURSIVE InsertOrCreateEdge(_, _, _, _, _)
\* InsertEdge that sends every edge down the pos child
InsertEdge_AlwaysPos(nodes, i, ea, eb, srf) ==
    LET r == InsertOrCreateEdge(nodes, nodes[i].pos, ea, eb, srf)
    IN  [r.nodes EXCEPT ![i].pos = r.idx]

\* SBspUv::InsertOrCreateEdge: the arena after the call and the node returned
InsertOrCreateEdge(nodes, where, ea, eb, srf) ==
    IF where = 0
    THEN [nodes |-> Append(nodes, NewNode(ea, eb)), idx |-> Len(nodes) + 1]
    ELSE [nodes |-> InsertEdge(nodes, where, ea, eb, srf), idx |-> where]

\* SBspUv::InsertEdge on node i: the arena after the call
InsertEdge(nodes, i, ea, eb, srf) ==
    LET nd   == nodes[i]
        dea  == ScaledSignedDistanceToLine(ea, nd.a, nd.b, srf)
        deb  == ScaledSignedDistanceToLine(eb, nd.a, nd.b, srf)
        IntoPos(ns, x, y) ==
            LET r == InsertOrCreateEdge(ns, ns[i].pos, x, y, srf)
            IN  [r.nodes EXCEPT ![i].pos = r.idx]
        IntoNeg(ns, x, y) ==
            LET r == InsertOrCreateEdge(ns, ns[i].neg, x, y, srf)
            IN  [r.nodes EXCEPT ![i].neg = r.idx]
    IN  IF dea = 0 /\ deb = 0
        THEN LET m == [NewNode(ea, eb) EXCEPT !.more = nd.more]
             IN  [Append(nodes, m) EXCEPT ![i].more = Len(nodes) + 1]
        ELSE IF dea = 0
        THEN IF deb > 0 THEN IntoPos(nodes, ea, eb) ELSE IntoNeg(nodes, ea, eb)
        ELSE IF deb = 0
        THEN IF dea > 0 THEN IntoPos(nodes, ea, eb) ELSE IntoNeg(nodes, ea, eb)
        ELSE IF dea > 0 /\ deb > 0 THEN IntoPos(nodes, ea, eb)
        ELSE IF dea < 0 /\ deb < 0 THEN IntoNeg(nodes, ea, eb)
        ELSE \* the new edge crosses this one: split at t = tn / td
             LET n  == Normal(Minus(nd.b, nd.a))
                 tn == Dot(nd.a, n) - Dot(n, ea)
                 td == Dot(n, Minus(eb, ea))
                 pi == <<ea[1] + ((eb[1] - ea[1]) * tn) \div td,
                         ea[2] + ((eb[2] - ea[2]) * tn) \div td>>
             IN  IF dea > 0
                 THEN IntoNeg(IntoPos(nodes, ea, pi), pi, eb)
                 ELSE IntoPos(IntoNeg(nodes, ea, pi), pi, eb)

\* The squared length of an edge
LenSq(e) == Dot(Minus(e.a, e.b), Minus(e.a, e.b))

\* The orders std::sort may leave the work list in: longest first, edges of
\* equal length in any order
SortedByLength(el) ==
    {w \in [1..Len(el) -> 1..Len(el)] :
        /\ \A i, j \in 1..Len(el) : i # j => w[i] # w[j]
        /\ \A i \in 1..(Len(el) - 1) : LenSq(el[w[i]]) >= LenSq(el[w[i + 1]])}

RECURSIVE InsertAll(_, _, _, _, _)
\* The insertion loop of From over work[k..]
InsertAll(nodes, el, w, k, srf) ==
    IF k > Len(el) THEN nodes
    ELSE InsertAll(InsertOrCreateEdge(nodes, IF nodes = <<>> THEN 0 ELSE 1,
                                      el[w[k]].a, el[w[k]].b, srf).nodes,
                   el, w, k + 1, srf)

\* SBspUv::From: the trees it can return for the edge list el
From(el, srf) == {InsertAll(<<>>, el, w, 1, srf) : w \in SortedByLength(el)}


(***************************************************************************)
(* UV-BSP: SBspUv::From on edge lists drawn from a pool, one inserted      *)
(* edge per step, then one query of the tree.  The edges of the pool are   *)
(* parallel to an axis or of slope 1, so that every split point is a grid  *)
(* point.                                                                  *)
(***************************************************************************)
\* The most edges in the list passed to From
MaxEdges == 3

\* An edge with the positive side (v < 0) of its line empty or not, an edge
\* that crosses it, edges on either side, an edge of slope 1 and an edge on
\* the same line as the first
BspEdgePool ==
    { [a |-> <<0, 0>>,  b |-> <<4, 0>>],
      [a |-> <<2, -2>>, b |-> <<2, 2>>],
      [a |-> <<3, -1>>, b |-> <<1, -1>>],
      [a |-> <<1, 1>>,  b |-> <<3, 1>>],
      [a |-> <<0, -1>>, b |-> <<2, 1>>],
      [a |-> <<6, 0>>,  b |-> <<8, 0>>] }

BspEdgeLists == UNION {[1..n -> BspEdgePool] : n \in 1..MaxEdges}

\* The magnitudes of the tangents that TangentsAt returns
BspScales == {[mu |-> 1, mv |-> 1], [mu |-> 2, mv |-> 1]}

\* The points asked about and the directions from p to eb
BspPoints ==
    {<<5, 0>>, <<7, 0>>, <<7, -1>>, <<2, 0>>, <<2, -1>>, <<1, 1>>, <<0, -2>>, <<1, 0>>}

BspDirs == {<<1, 0>>, <<0, 1>>, <<-1, 0>>}

BspInit ==
    /\ KeepIdle
    /\ SplitIdle
    /\ BoolIdle
    /\ EdgesIdle
    /\ upc = "args"
    /\ uel \in BspEdgeLists
    /\ usrf \in BspScales
    /\ uwork = <<>>
    /\ uk = 0
    /\ utree = NullBsp
    /\ uq = NoQuery

\* Lines 773-784 of From: copy the list and sort it, longest edge first
SortWork ==
    /\ upc = "args"
    /\ \E w \in SortedByLength(uel) : uwork' = [i \in 1..Len(uel) |-> uel[w[i]]]
    /\ uk' = 1
    /\ upc' = "insert"
    /\ UNCHANGED <<uel, usrf, utree, uq>>
    /\ UNCHANGED <<kvars, svars, bvars, evars>>

\* Lines 786-788 of From: one turn of the insertion loop
InsertNext ==
    /\ upc = "insert"
    /\ uk <= Len(uwork)
    /\ utree' = InsertOrCreateEdge(utree, IF utree = NullBsp THEN 0 ELSE 1,
                                   uwork[uk].a, uwork[uk].b, usrf).nodes
    /\ uk' = uk + 1
    /\ UNCHANGED <<upc, uel, usrf, uwork, uq>>
    /\ UNCHANGED <<kvars, svars, bvars, evars>>

\* Lines 790-791 of From
FromReturn ==
    /\ upc = "insert"
    /\ uk > Len(uwork)
    /\ upc' = "built"
    /\ UNCHANGED <<uel, usrf, uwork, uk, utree, uq>>
    /\ UNCHANGED <<kvars, svars, bvars, evars>>

\* The nodes a query can be made of: the root and every pos or neg child
BspHeads(nodes) ==
    {i \in DOMAIN nodes : i = 1 \/ \E j \in DOMAIN nodes : i \in {nodes[j].pos, nodes[j].neg}}

\* A call of ClassifyPoint on a node of the tree
AskClassify ==
    /\ upc = "built"
    /\ \E i \in BspHeads(utree) : \E p \in BspPoints : \E dir \in BspDirs :
         uq' = [node |-> i, p |-> p, eb |-> Plus(p, dir),
                cls |-> ClassifyPoint(utree, i, p, Plus(p, dir), usrf),
                dist |-> InfDist]
    /\ upc' = "asked"
    /\ UNCHANGED <<uel, usrf, uwork, uk, utree>>
    /\ UNCHANGED <<kvars, svars, bvars, evars>>

\* A call of MinimumDistanceToEdge on the root of the tree
AskDistance ==
    /\ upc = "built"
    /\ \E p \in BspPoints :
         uq' = [node |-> 1, p |-> p, eb |-> p, cls |-> "NONE",
                dist |-> MinimumDistanceToEdge(utree, 1, p, usrf)]
    /\ upc' = "measured"
    /\ UNCHANGED <<uel, usrf, uwork, uk, utree>>
    /\ UNCHANGED <<kvars, svars, bvars, evars>>

BspNext == SortWork \/ InsertNext \/ FromReturn \/ AskClassify \/ AskDistance

SpecBsp == BspInit /\ [][BspNext]_vars


(***************************************************************************)
(* Curve splitter: SCurve::MakeCopySplitAgainst.  Points of space are      *)
(* points of a small integer grid.  What the external routines return      *)
(* (AllPointsIntersecting, ClosestPointTo, PointOnSurfaces and PointAt)    *)
(* is chosen freely: the surface of each intersection, its projection puv  *)
(* and the refined point.                                                  *)
(***************************************************************************)
\* The most intersections AllPointsIntersecting returns for one pwl segment
MaxInter == 2

\* SS.ChordTolMm(), in grid units
ChordTol == 1

\* Points of space
Pt == {<<0, 0>>, <<1, 0>>, <<2, 0>>, <<1, 1>>}

\* Vector::From(VERY_POSITIVE, 0, 0), a point off the grid
VeryPositivePt == <<10000, 0>>

\* The pwl curves that are split: a single point, one segment, two segments,
\* a closed curve and a curve with a repeated point; the ends are vertices
SplitCurves ==
    LET V(q) == [p |-> q, vertex |-> TRUE]
        I(q) == [p |-> q, vertex |-> FALSE]
    IN  { <<V(<<0, 0>>)>>,
          <<V(<<0, 0>>), V(<<2, 0>>)>>,
          <<V(<<0, 0>>), I(<<2, 0>>), V(<<1, 1>>)>>,
          <<V(<<0, 0>>), I(<<1, 1>>), V(<<0, 0>>)>>,
          <<V(<<1, 0>>), V(<<1, 0>>)>> }

\* The trim polygon of surface "S1" in its uv plane, material on the positive
\* side of every edge
TrimTriangle ==
    << [a |-> <<0, 0>>, b |-> <<0, 3>>],
       [a |-> <<0, 3>>, b |-> <<4, 0>>],
       [a |-> <<4, 0>>, b |-> <<0, 0>>] >>

UnitScale == [mu |-> 1, mv |-> 1]

\* The surfaces an intersection can name: the two the curve trims, a surface
\* with a classifying BSP and one without.  The edges of the triangle differ
\* in length, so From builds one tree.
SplitSurfaces ==
    LET t == CHOOSE x \in From(TrimTriangle, UnitScale) : TRUE
    IN  [n \in {"srfA", "srfB", "S1", "S2"} |->
            [mu |-> 1, mv |-> 1, bsp |-> IF n = "S2" THEN NullBsp ELSE t]]

\* The uv points ClosestPointTo returns: inside the triangle, on a vertex, on
\* an edge, outside at the chord tolerance, outside beyond it
UvQuery == {<<1, 1>>, <<0, 3>>, <<2, 0>>, <<2, -1>>, <<2, -2>>}

\* Lines 77-85: the class of puv on pi->srf, and whether the intersection is
\* dropped for lying outside and farther than the chord tolerance
InterClass(srf, puv) ==
    IF srf.bsp # NullBsp THEN ClassifyPoint(srf.bsp, 1, puv, <<0, 0>>, srf) ELSE "OUTSIDE"

\* InterFar with >= for >: an intersection at the tolerance is dropped too
InterFar_AtTol(srf, puv) ==
    LET d == IF srf.bsp # NullBsp THEN MinimumDistanceToEdge(srf.bsp, 1, puv, srf)
             ELSE InfDist
    IN  InterClass(srf, puv) = "OUTSIDE" /\ ~DistLess(d, Dist(ChordTol * ChordTol, 1))

InterFar(srf, puv) ==
    LET d == IF srf.bsp # NullBsp THEN MinimumDistanceToEdge(srf.bsp, 1, puv, srf)
             ELSE InfDist
    IN  InterClass(srf, puv) = "OUTSIDE" /\ DistAbove(d, ChordTol)

\* The tag the refinement loop (lines 57-90) leaves on an intersection
InterTag(sname, puv) ==
    IF sname \in {"srfA", "srfB"} THEN 1
    ELSE IF InterFar(SplitSurfaces[sname], puv) THEN 1
    ELSE 0

\* One element of il after the refinement loop.  puv is read only for a
\* surface other than srfA and srfB, and p is refined only when the
\* intersection is kept; elsewhere the fields are held at a fixed value.
Inters ==
    {x \in [srf : DOMAIN SplitSurfaces, puv : UvQuery, p : Pt, tag : {0, 1}] :
        /\ x.tag = InterTag(x.srf, x.puv)
        /\ x.srf \in {"srfA", "srfB"} => x.puv = <<1, 1>>
        /\ x.tag = 1 => x.p = <<0, 0>>}

\* il.RemoveTagged()
RemoveTagged(l) == SelectSeq(l, LAMBDA x : x.tag = 0)

\* The permutations of 1..n
Perms(n) == {w \in [1..n -> 1..n] : \A i, j \in 1..n : i # j => w[i] # w[j]}

\* (a.p - lineStart).DivProjected(lineDirection) times |lineDirection|^2
AlongLine(q, lineStart, lineDirection) == Dot(Minus(q, lineStart), lineDirection)

\* The orders std::sort (lines 98-103) may leave l in
SortedAlong(l, lineStart, lineDirection) ==
    {[i \in 1..Len(l) |-> l[w[i]]] : w \in
        {w \in Perms(Len(l)) : \A i \in 1..(Len(l) - 1) :
            AlongLine(l[w[i]].p, lineStart, lineDirection)
                <= AlongLine(l[w[i + 1]].p, lineStart, lineDirection)}}

\* SplitPoints without the test against the inner prev
SplitPoints_NoSkip(l, k, q) ==
    [i \in 1..Len(l) |-> [p |-> l[i].p, vertex |-> TRUE]]

RECURSIVE SplitPoints(_, _, _)
\* Lines 106-118: the points added for the sorted list l from its element k
\* on; q is the inner prev
SplitPoints(l, k, q) ==
    IF k > Len(l) THEN <<>>
    ELSE (IF q # l[k].p THEN <<[p |-> l[k].p, vertex |-> TRUE]>> ELSE <<>>)
         \o SplitPoints(l, k + 1, l[k].p)

SplitInit ==
    /\ KeepIdle
    /\ BoolIdle
    /\ BspIdle
    /\ EdgesIdle
    /\ spc = "idle"
    /\ cpts \in SplitCurves
    /\ ret = <<>>
    /\ prev = <<>>
    /\ si = 0
    /\ nret = 0
    /\ il = <<>>

\* Lines 30-38: the copy starts with the first point of the curve
SplitFirst ==
    /\ spc = "idle"
    /\ Len(cpts) > 0
    /\ ret' = <<cpts[1]>>
    /\ prev' = cpts[1]
    /\ si' = 2
    /\ nret' = 1
    /\ spc' = "loop"
    /\ UNCHANGED <<cpts, il>>
    /\ UNCHANGED kvars
    /\ UNCHANGED bvars
    /\ UNCHANGED <<uvars, evars>>

\* Lines 41-119: the body of the loop for the segment from prev to
\* p = cpts[si]: collect the intersections, tag, refine, sort, add the
\* split points
SplitSegment ==
    /\ spc = "loop"
    /\ si <= Len(cpts)
    /\ \E n \in 0..MaxInter :
       \E l \in [1..n -> Inters] :
       \E sorted \in SortedAlong(RemoveTagged(l), prev.p, Minus(cpts[si].p, prev.p)) :
            /\ il' = l
            /\ ret' = ret \o SplitPoints(sorted, 1, VeryPositivePt)
    /\ nret' = Len(ret)
    /\ spc' = "emitted"
    /\ UNCHANGED <<cpts, prev, si>>
    /\ UNCHANGED kvars
    /\ UNCHANGED bvars
    /\ UNCHANGED <<uvars, evars>>

\* SplitAdvance that does not add p
SplitAdvance_NoAdd ==
    /\ spc = "emitted"
    /\ il' = <<>>
    /\ ret' = ret
    /\ prev' = cpts[si]
    /\ si' = si + 1
    /\ spc' = "loop"
    /\ UNCHANGED <<cpts, nret>>
    /\ UNCHANGED kvars
    /\ UNCHANGED bvars
    /\ UNCHANGED <<uvars, evars>>

\* Lines 121-123 and the step of the for loop: il.Clear(), ret.pts.Add(p),
\* prev = *p
SplitAdvance ==
    /\ spc = "emitted"
    /\ il' = <<>>
    /\ ret' = Append(ret, cpts[si])
    /\ prev' = cpts[si]
    /\ si' = si + 1
    /\ spc' = "loop"
    /\ UNCHANGED <<cpts, nret>>
    /\ UNCHANGED kvars
    /\ UNCHANGED bvars
    /\ UNCHANGED <<uvars, evars>>

\* Line 125
SplitReturn ==
    /\ spc = "loop"
    /\ si > Len(cpts)
    /\ spc' = "done"
    /\ UNCHANGED <<cpts, ret, prev, si, nret, il>>
    /\ UNCHANGED kvars
    /\ UNCHANGED bvars
    /\ UNCHANGED <<uvars, evars>>

SplitNext == SplitFirst \/ SplitSegment \/ SplitAdvance \/ SplitReturn

SpecSplit == SplitInit /\ [][SplitNext]_vars


(***************************************************************************)
(* Shells.  A shell is [curve, surface, booleanFailed]; curve and surface  *)
(* are id lists, kept as sequences.  Handles are positive integers, 0 is   *)
(* the handle of nothing.  Points of space are integers, compared for      *)
(* equality only; the uv point of a point on a surface is the same         *)
(* integer.  A classifying BSP is held as the edge list it was built from  *)
(* and the call that built it; what it answers is chosen freely.           *)
(***************************************************************************)
\* IdList::FindById
FindById(list, h) == list[CHOOSE i \in DOMAIN list : list[i].h = h]

\* IdList::MaximumId
MaximumId(list) ==
    IF list = <<>> THEN 0
    ELSE CHOOSE m \in {list[i].h : i \in DOMAIN list} :
            \A i \in DOMAIN list : list[i].h <= m

\* IdList::AddAndAssignId: the list after the call; the handle assigned is
\* MaximumId(list) + 1
AddAndAssignId(list, item) == Append(list, [item EXCEPT !.h = MaximumId(list) + 1])

\* SEdgeList::AddEdge
Edge(a, b, auxA, auxB) == [a |-> a, b |-> b, auxA |-> auxA, auxB |-> auxB]

Reversed(q) == [i \in 1..Len(q) |-> q[Len(q) + 1 - i]]

RECURSIVE TrimEdges(_, _, _, _, _, _)
\* The loop of SSurface::MakeEdgesInto over the points of one trim's curve,
\* taken in the direction of the trim, from index k on
TrimEdges(pts, stb, h, k, inCurve, prevPt) ==
    IF k > Len(pts) THEN <<>>
    ELSE LET pt  == pts[k].p
             out == IF inCurve THEN <<Edge(prevPt, pt, h, IF stb.backwards THEN 1 ELSE 0)>>
                    ELSE <<>>
             in1 == IF pt = stb.start THEN TRUE ELSE inCurve
             in2 == IF pt = stb.finish THEN FALSE ELSE in1
         IN  out \o TrimEdges(pts, stb, h, k + 1, in2, pt)

RECURSIVE MakeEdgesInto(_, _, _, _, _)
\* SSurface::MakeEdgesInto(shell, sel, flags, useCurvesFrom) for the trims
\* from index k on; useNew is whether useCurvesFrom is given, and from is
\* then its curve list
MakeEdgesInto(trim, curves, useNew, from, k) ==
    IF k > Len(trim) THEN <<>>
    ELSE LET sc0 == FindById(curves, trim[k].curve)
             sc  == IF useNew THEN FindById(from, sc0.newH) ELSE sc0
             pts == IF trim[k].backwards THEN Reversed(sc.pts) ELSE sc.pts
         IN  TrimEdges(pts, trim[k], sc.h, 1, FALSE, 0)
                \o MakeEdgesInto(trim, curves, useNew, from, k + 1)

\* SBspUv::From for a surface of a shell: no tree for an empty edge list
BspFrom(el, gen) == [null |-> (el = <<>>), gen |-> gen, el |-> el]

\* SSurface::Reverse, on the trims
ReverseTrims(trim) ==
    [i \in DOMAIN trim |->
        [trim[i] EXCEPT !.backwards = ~trim[i].backwards,
                        !.start = trim[i].finish, !.finish = trim[i].start]]

\* The points of an edge list
PointsOf(el) == {el[i].a : i \in DOMAIN el} \cup {el[i].b : i \in DOMAIN el}

\* SPointList::IncrementTagFor over the ends of the edges: the tag of q
Incidences(el, q) ==
    Cardinality({i \in DOMAIN el : el[i].a = q}) + Cardinality({i \in DOMAIN el : el[i].b = q})

\* SPointList::IncrementTagFor(q) on the point list l
IncrementTagFor(l, q) ==
    IF \E i \in DOMAIN l : l[i].p = q
    THEN LET i == CHOOSE j \in DOMAIN l : l[j].p = q
         IN  [l EXCEPT ![i].tag = @ + 1]
    ELSE Append(l, [p |-> q, tag |-> 1])

RECURSIVE CountEnds(_, _, _)
\* The loops at lines 487-494 over one edge list, from edge k on
CountEnds(el, k, l) ==
    IF k > Len(el) THEN l
    ELSE CountEnds(el, k + 1, IncrementTagFor(IncrementTagFor(l, el[k].a), el[k].b))

\* ChoosingPoints that keeps the points where more than two edge ends meet
ChoosingPoints_MoreThanTwo(orig, inter) ==
    LET l == CountEnds(inter, 1, CountEnds(orig, 1, <<>>))
    IN  {l[i].p : i \in {j \in DOMAIN l : l[j].tag > 2}}

\* Lines 485-503: the choosing points of the edge lists orig and inter:
\* the points counted, less those the loop at 496-502 tags for removal
ChoosingPoints(orig, inter) ==
    LET l   == CountEnds(inter, 1, CountEnds(orig, 1, <<>>))
        tag == [i \in DOMAIN l |-> IF l[i].tag = 2 THEN 1 ELSE 0]
    IN  {l[i].p : i \in {j \in DOMAIN l : tag[j] = 0}}

RECURSIVE ChainScan(_, _, _, _, _)
\* The for loop at lines 315-332 from index k on.  c holds the tags, the
\* chain dest, its ends s and f, startOkay, finishOkay and added.
ChainScan(src, avoid, k, c, dummy) ==
    IF k > Len(src) THEN c
    ELSE IF c.tag[k] = 1 THEN ChainScan(src, avoid, k + 1, c, dummy)
    ELSE IF c.startOkay /\ c.s = src[k].b
    THEN ChainScan(src, avoid, k + 1,
            [c EXCEPT !.dest = <<src[k]>> \o c.dest, !.s = src[k].a, !.tag[k] = 1,
                      !.startOkay = (src[k].a \notin avoid), !.added = TRUE], dummy)
    ELSE IF c.finishOkay /\ c.f = src[k].a
    THEN ChainScan(src, avoid, k + 1,
            [c EXCEPT !.dest = Append(c.dest, src[k]), !.f = src[k].b, !.tag[k] = 1,
                      !.finishOkay = (src[k].b \notin avoid), !.added = TRUE], dummy)
    ELSE ChainScan(src, avoid, k + 1, c, dummy)

RECURSIVE ChainLoop(_, _, _)
\* The do-while at lines 301-333
ChainLoop(src, avoid, c) ==
    LET s  == c.dest[1].a
        f  == c.dest[Len(c.dest)].b
        c1 == ChainScan(src, avoid, 1,
                [c EXCEPT !.s = s, !.f = f, !.startOkay = (s \notin avoid),
                          !.finishOkay = (f \notin avoid), !.added = FALSE], 0)
    IN  IF c1.added THEN ChainLoop(src, avoid, c1) ELSE c1

\* FindChainAvoiding that attaches edges at points to avoid too
FindChainAvoiding_NoAvoid(src, avoid) ==
    LET c == ChainLoop(src, {},
                [tag |-> [i \in DOMAIN src |-> IF i = 1 THEN 1 ELSE 0],
                 dest |-> <<src[1]>>, s |-> 0, f |-> 0,
                 startOkay |-> FALSE, finishOkay |-> FALSE, added |-> FALSE])
    IN  [chain |-> c.dest,
         src   |-> SelectSeq(src, LAMBDA e : \A i \in DOMAIN c.dest : c.dest[i] # e)]

\* SSurface::FindChainAvoiding(src, dest, avoid) for a src that is not
\* empty: the chain, and src with the chain removed
FindChainAvoiding(src, avoid) ==
    LET c == ChainLoop(src, avoid,
                [tag |-> [i \in DOMAIN src |-> IF i = 1 THEN 1 ELSE 0],
                 dest |-> <<src[1]>>, s |-> 0, f |-> 0,
                 startOkay |-> FALSE, finishOkay |-> FALSE, added |-> FALSE])
        keep == {i \in DOMAIN src : c.tag[i] = 0}
    IN  [chain |-> c.dest,
         src   |-> LET RECURSIVE Rest(_)
                       Rest(k) == IF k > Len(src) THEN <<>>
                                  ELSE (IF k \in keep THEN <<src[k]>> ELSE <<>>) \o Rest(k + 1)
                   IN  Rest(1)]

\* SEdgeList::CullExtraneousEdges: of equal edges the first is kept, of two
\* anti-parallel edges neither
CullExtraneousEdges(el) ==
    LET tagged(j) ==
            \/ \E i \in 1..(j - 1) : el[i].a = el[j].a /\ el[i].b = el[j].b
            \/ \E i \in DOMAIN el : i # j /\ el[i].a = el[j].b /\ el[i].b = el[j].a
        RECURSIVE Rest(_)
        Rest(k) == IF k > Len(el) THEN <<>>
                   ELSE (IF tagged(k) THEN <<>> ELSE <<el[k]>>) \o Rest(k + 1)
    IN  Rest(1)

\* SEdgeList::AssemblePolygon with keepDir: the edges, followed head to
\* tail, form closed contours exactly when every point has as many edges
\* leaving it as entering it
AssemblePolygon(el) ==
    \A q \in PointsOf(el) :
        Cardinality({i \in DOMAIN el : el[i].a = q}) = Cardinality({i \in DOMAIN el : el[i].b = q})

RECURSIVE MergeScan(_, _, _, _)
\* The for loop at lines 165-180 from index k on; m holds the tags, the
\* trim stb and merged
MergeScan(el, k, m, dummy) ==
    IF k > Len(el) THEN m
    ELSE IF \/ m.tag[k] = 1
            \/ el[k].auxA # m.stb.curve
            \/ (el[k].auxB # 0) # m.stb.backwards
    THEN MergeScan(el, k + 1, m, dummy)
    ELSE IF el[k].a = m.stb.finish
    THEN MergeScan(el, k + 1,
            [m EXCEPT !.stb.finish = el[k].b, !.tag[k] = 1, !.merged = TRUE], dummy)
    ELSE IF el[k].b = m.stb.start
    THEN MergeScan(el, k + 1,
            [m EXCEPT !.stb.start = el[k].a, !.tag[k] = 1, !.merged = TRUE], dummy)
    ELSE MergeScan(el, k + 1, m, dummy)

RECURSIVE MergeLoop(_, _)
\* The do-while at lines 163-181
MergeLoop(el, m) ==
    LET m1 == MergeScan(el, 1, [m EXCEPT !.merged = FALSE], 0)
    IN  IF m1.merged THEN MergeLoop(el, m1) ELSE m1

RECURSIVE TrimLoop(_, _, _)
\* The for(;;) at lines 146-190: the trims added, given the tags so far
TrimLoop(el, tag, trim) ==
    IF \A i \in DOMAIN el : tag[i] = 1 THEN trim
    ELSE LET k == CHOOSE i \in DOMAIN el :
                    tag[i] = 0 /\ \A j \in 1..(i - 1) : tag[j] = 1
             m == MergeLoop(el,
                    [tag |-> [tag EXCEPT ![k] = 1],
                     stb |-> [start |-> el[k].a, finish |-> el[k].b,
                              curve |-> el[k].auxA, backwards |-> (el[k].auxB # 0)],
                     merged |-> FALSE])
         IN  TrimLoop(el, m.tag, Append(trim, m.stb))

\* TrimFromEdgeList that makes one trim of every edge
TrimFromEdgeList_NoMerge(el) ==
    [i \in DOMAIN el |-> [start |-> el[i].a, finish |-> el[i].b,
                          curve |-> el[i].auxA, backwards |-> (el[i].auxB # 0)]]

\* SSurface::TrimFromEdgeList(el, asUv): the trims added to this->trim
TrimFromEdgeList(el) == TrimLoop(el, [i \in DOMAIN el |-> 0], <<>>)


(***************************************************************************)
(* The edge-list routines of MakeCopyTrimAgainst, each applied once to     *)
(* arguments drawn from small sets: the choosing points (lines 485-503),   *)
(* FindChainAvoiding and TrimFromEdgeList.  Points are integers.           *)
(***************************************************************************)
\* The most edges in an edge list passed to a routine
MaxSrc == 3

\* The edge lists of at most n edges of the set edges
EdgeLists(n, edges) == UNION {[1..m -> edges] : m \in 0..n}

\* The edges of one curve between three points
ChoosingEdges ==
    {Edge(x[1], x[2], 1, 0) : x \in {z \in (1..3) \X (1..3) : z[1] # z[2]}}

\* Edges between four points: a closed path, edges against it and across it
ChainEdges ==
    {Edge(x[1], x[2], 1, 0) :
        x \in {<<1, 2>>, <<2, 3>>, <<3, 4>>, <<4, 1>>, <<2, 1>>, <<3, 2>>, <<1, 3>>, <<2, 4>>}}

\* Edges of two curves between three points, forwards and backwards
TrimEdgePool ==
    {Edge(1, 2, 1, 0), Edge(2, 3, 1, 0), Edge(3, 1, 1, 0), Edge(1, 3, 1, 0),
     Edge(2, 1, 1, 0), Edge(3, 2, 1, 0), Edge(1, 2, 1, 1), Edge(2, 3, 1, 1),
     Edge(2, 3, 2, 0), Edge(3, 1, 2, 0)}

\* The arguments of the calls, for edge lists of at most n edges
EdgesArgs(n) ==
    {[fn |-> "choosing", el |-> o, inter |-> i, avoid |-> {}] :
        o \in EdgeLists(n, ChoosingEdges), i \in EdgeLists(1, ChoosingEdges)}
    \cup
    {[fn |-> "chain", el |-> o, inter |-> <<>>, avoid |-> v] :
        o \in EdgeLists(n, ChainEdges) \ {<<>>}, v \in SUBSET (1..4)}
    \cup
    {[fn |-> "trim", el |-> o, inter |-> <<>>, avoid |-> {}] :
        o \in EdgeLists(n, TrimEdgePool)}

EdgesInit ==
    /\ KeepIdle
    /\ SplitIdle
    /\ BoolIdle
    /\ BspIdle
    /\ epc = "args"
    /\ ein \in EdgesArgs(MaxSrc)
    /\ eout = NoEdgesOut

\* Lines 485-503 of MakeCopyTrimAgainst on orig = ein.el and inter
CallChoosing ==
    /\ epc = "args"
    /\ ein.fn = "choosing"
    /\ eout' = [eout EXCEPT !.choosing = ChoosingPoints(ein.el, ein.inter)]
    /\ epc' = "called"
    /\ UNCHANGED ein
    /\ UNCHANGED <<kvars, svars, bvars, uvars>>

\* FindChainAvoiding(src, dest, avoid) on src = ein.el and an empty dest
CallFindChain ==
    /\ epc = "args"
    /\ ein.fn = "chain"
    /\ LET r == FindChainAvoiding(ein.el, ein.avoid)
       IN  eout' = [eout EXCEPT !.chain = r.chain, !.src = r.src]
    /\ epc' = "called"
    /\ UNCHANGED ein
    /\ UNCHANGED <<kvars, svars, bvars, uvars>>

\* TrimFromEdgeList(el, asUv) on el = ein.el and a surface without trims
CallTrim ==
    /\ epc = "args"
    /\ ein.fn = "trim"
    /\ eout' = [eout EXCEPT !.trims = TrimFromEdgeList(ein.el)]
    /\ epc' = "called"
    /\ UNCHANGED ein
    /\ UNCHANGED <<kvars, svars, bvars, uvars>>

EdgesNext == CallChoosing \/ CallFindChain \/ CallTrim

SpecEdges == EdgesInit /\ [][EdgesNext]_vars


(***************************************************************************)
(* The orchestrators.  The operands are shells of n surfaces around two    *)
(* vertices p and q: curve k runs from p over a middle point to q, and     *)
(* surface k is trimmed by curve k forwards and by the next curve          *)
(* backwards.  What the external routines return (AllPointsIntersecting,   *)
(* IntersectAgainst, RemoveShortSegments, SShell::ClassifyEdge, the        *)
(* classifying BSPs and the surface normals) is chosen freely.             *)
(***************************************************************************)
\* The most places where the operands meet in a run: pwl segments of operand
\* curves that get a split point, and curves that IntersectAgainst adds
MaxMeet == 1

\* The numbers of surfaces of operand a and of operand b
SizesA == {0, 2}

SizesB == {0, 3}

\* The shell of n surfaces around the vertices <<x0, 0>> and <<x0 + 2, 0>>
Orange(n, x0) ==
    LET p == <<x0, 0>>
        q == <<x0 + 2, 0>>
        m(k) == <<x0 + 1, k>>
        nxt(k) == IF k = n THEN 1 ELSE k + 1
        prv(k) == IF k = 1 THEN n ELSE k - 1
    IN  [curve |-> [k \in 1..n |->
                [h |-> k, surfA |-> k, surfB |-> prv(k), source |-> "A", newH |-> 0,
                 pts |-> << [p |-> p, vertex |-> TRUE], [p |-> m(k), vertex |-> FALSE],
                            [p |-> q, vertex |-> TRUE] >>]],
         surface |-> [k \in 1..n |->
                [h |-> k, newH |-> 0, bsp |-> BspFrom(<<>>, 0), edges |-> <<>>,
                 trim |-> << [curve |-> k, start |-> p, finish |-> q, backwards |-> FALSE],
                             [curve |-> nxt(k), start |-> q, finish |-> p,
                              backwards |-> TRUE] >>]],
         booleanFailed |-> FALSE]

\* The point a split adds to the segment from a to b of an operand curve: a
\* point of that curve, so segments that differ get points that differ
SplitPt(a, b) == <<a[1] + b[1], a[2] + b[2] + 100>>

\* The pwls of the curves IntersectAgainst adds: a line from vertex to vertex
\* of operand a
InterPwls ==
    { << [p |-> <<0, 0>>, vertex |-> TRUE], [p |-> <<2, 0>>, vertex |-> TRUE] >> }

Init ==
    /\ KeepIdle
    /\ SplitIdle
    /\ BspIdle
    /\ EdgesIdle
    /\ op \in CombineAs \cup {"ASSEMBLY"}
    /\ pc = "start"
    /\ sha \in {Orange(n, 0) : n \in SizesA}
    /\ shb \in {Orange(n, 10) : n \in SizesB}
    /\ into \in {[EmptyShell EXCEPT !.booleanFailed = f] : f \in BOOLEAN}
    /\ idx = 0
    /\ loc = NoLoc
    /\ hist = NoHist

\* The loops of MakeFromBoolean (lines 705-744) and of MakeFromAssemblyOf
\* (lines 663-693), in program order
BoolPhases ==
    <<"splitA", "splitB", "intersect", "short", "rebsp", "trimA", "trimB",
      "rewrite", "cleanup">>

AsmPhases == <<"asmCurvesA", "asmCurvesB", "asmSurfacesA", "asmSurfacesB", "asmRewrite">>

\* The number of turns the loop ph takes
LoopCount(ph, a, b, res) ==
    CASE ph \in {"splitA", "asmCurvesA"} -> Len(a.curve)
      [] ph \in {"splitB", "asmCurvesB"} -> Len(b.curve)
      [] ph = "intersect" -> Len(a.surface) * Len(b.surface)
      [] ph = "short" -> Len(res.curve)
      [] ph \in {"trimA", "asmSurfacesA"} -> Len(a.surface)
      [] ph \in {"trimB", "asmSurfacesB"} -> Len(b.surface)
      [] OTHER -> 1

RECURSIVE FirstFrom(_, _, _, _, _)
\* The first turn at or after phase n of phs: loops of no turn are passed
FirstFrom(phs, n, a, b, res) ==
    IF n > Len(phs) THEN [pc |-> "done", idx |-> 0]
    ELSE IF LoopCount(phs[n], a, b, res) > 0 THEN [pc |-> phs[n], idx |-> 1]
    ELSE FirstFrom(phs, n + 1, a, b, res)

\* The turn after turn k of loop ph
Step(phs, ph, k, a, b, res) ==
    IF k < LoopCount(ph, a, b, res) THEN [pc |-> ph, idx |-> k + 1]
    ELSE FirstFrom(phs, (CHOOSE n \in DOMAIN phs : phs[n] = ph) + 1, a, b, res)

\* SShell::MakeClassifyingBsps(useCurvesFrom), as call number gen of the run
MakeClassifyingBsps(shell, useNew, from, gen) ==
    [shell EXCEPT !.surface =
        [k \in DOMAIN shell.surface |->
            LET el == MakeEdgesInto(shell.surface[k].trim, shell.curve, useNew, from, 1)
            IN  [shell.surface[k] EXCEPT !.bsp = BspFrom(el, gen), !.edges = el]]]

\* CleanupAfterBoolean that also forgets the tree and newH of each surface
CleanupAfterBoolean_All(shell) ==
    [shell EXCEPT !.surface =
        [k \in DOMAIN shell.surface |->
            [shell.surface[k] EXCEPT !.edges = <<>>, !.bsp = BspFrom(<<>>, 0), !.newH = 0]]]

\* SShell::CleanupAfterBoolean
CleanupAfterBoolean(shell) ==
    [shell EXCEPT !.surface =
        [k \in DOMAIN shell.surface |-> [shell.surface[k] EXCEPT !.edges = <<>>]]]

\* Lines 697-700: the flag is cleared and both operands get classifying BSPs
\* of their own curves
BoolBegin ==
    /\ pc = "start"
    /\ op \in CombineAs
    /\ LET a == MakeClassifyingBsps(sha, FALSE, <<>>, 1)
           b == MakeClassifyingBsps(shb, FALSE, <<>>, 1)
           res == [into EXCEPT !.booleanFailed = FALSE]
           nx == FirstFrom(BoolPhases, 1, a, b, res)
       IN  /\ sha' = a
           /\ shb' = b
           /\ into' = res
           /\ pc' = nx.pc
           /\ idx' = nx.idx
    /\ UNCHANGED <<op, loc, hist>>
    /\ UNCHANGED <<kvars, svars>>
    /\ UNCHANGED <<uvars, evars>>

RECURSIVE CopySplit(_, _, _)
\* Lines 41-124 for the pwl points from index k on; adds[k - 1] is the list
\* il of the segment that ends at point k, after RemoveTagged and the sort
CopySplit(pts, adds, k) ==
    IF k > Len(pts) THEN <<>>
    ELSE SplitPoints(adds[k - 1], 1, VeryPositivePt) \o <<pts[k]>>
            \o CopySplit(pts, adds, k + 1)

\* SCurve::MakeCopySplitAgainst on a curve of a shell
MakeCopySplitAgainst(sc, adds) ==
    [sc EXCEPT !.pts = <<sc.pts[1]>> \o CopySplit(sc.pts, adds, 2)]

\* Lines 57-90: an intersection is kept only on a surface of agnst that has a
\* classifying BSP
CanSplit(agnst) == \E k \in DOMAIN agnst.surface : ~agnst.surface[k].bsp.null

\* The lists il, after RemoveTagged and the sort, of the segments of the pwl
\* pts: a segment gets no split point or one
SegmentSplits(agnst, pts, budget) ==
    LET n == Len(pts) - 1
        cut == 1..n
    IN  {[k \in 1..n |-> IF k \in on THEN <<[p |-> SplitPt(pts[k].p, pts[k + 1].p)]>>
                          ELSE <<>>] :
            on \in {x \in SUBSET cut : Cardinality(x) <= budget /\ (x # {} => CanSplit(agnst))}}

\* One turn of the loop of SShell::CopyCurvesSplitAgainst (lines 130-139)
CopyCurveSplit(opA) ==
    /\ pc = IF opA THEN "splitA" ELSE "splitB"
    /\ LET parent == IF opA THEN sha ELSE shb
           agnst  == IF opA THEN shb ELSE sha
           sc     == parent.curve[idx]
       IN  \E adds \in SegmentSplits(agnst, sc.pts, MaxMeet - hist.nmeet) :
            LET scn == [MakeCopySplitAgainst(sc, adds) EXCEPT
                            !.source = IF opA THEN "A" ELSE "B"]
                res == [into EXCEPT !.curve = AddAndAssignId(into.curve, scn)]
                np  == [parent EXCEPT !.curve[idx].newH = MaximumId(into.curve) + 1]
                nx  == Step(BoolPhases, pc, idx, sha, shb, res)
            IN  /\ into' = res
                /\ sha' = IF opA THEN np ELSE sha
                /\ shb' = IF opA THEN shb ELSE np
                /\ hist' = [hist EXCEPT !.nmeet =
                                @ + Cardinality({k \in DOMAIN adds : adds[k] # <<>>})]
                /\ pc' = nx.pc
                /\ idx' = nx.idx
    /\ UNCHANGED <<op, loc>>
    /\ UNCHANGED <<kvars, svars>>
    /\ UNCHANGED <<uvars, evars>>

\* One turn of the loops of SShell::MakeIntersectionCurvesAgainst (lines
\* 613-621): IntersectAgainst adds no curve, or a curve between sa and sb
IntersectPair ==
    /\ pc = "intersect"
    /\ LET sa == sha.surface[((idx - 1) \div Len(shb.surface)) + 1]
           sb == shb.surface[((idx - 1) % Len(shb.surface)) + 1]
       IN  \E pwl \in {<<>>} \cup (IF hist.nmeet < MaxMeet THEN InterPwls ELSE {}) :
            LET scn == [h |-> 0, surfA |-> sa.h, surfB |-> sb.h,
                        source |-> "INTERSECTION", newH |-> 0, pts |-> pwl]
                res == IF pwl = <<>> THEN into
                       ELSE [into EXCEPT !.curve = AddAndAssignId(into.curve, scn)]
                nx  == Step(BoolPhases, pc, idx, sha, shb, res)
            IN  /\ into' = res
                /\ hist' = [hist EXCEPT !.nmeet = IF pwl = <<>> THEN @ ELSE @ + 1]
                /\ pc' = nx.pc
                /\ idx' = nx.idx
    /\ UNCHANGED <<op, sha, shb, loc>>
    /\ UNCHANGED <<kvars, svars>>
    /\ UNCHANGED <<uvars, evars>>

\* SCurve::RemoveShortSegments: the pwls it may leave.  A pwl of three points
\* or fewer is left alone; of a longer one, points that are neither a
\* vertex nor an end may go.
RemoveShortSegments(pts) ==
    IF Len(pts) <= 3 THEN {pts}
    ELSE LET removable == {k \in 2..(Len(pts) - 1) : ~pts[k].vertex}
             RECURSIVE Rest(_, _)
             Rest(gone, k) == IF k > Len(pts) THEN <<>>
                              ELSE (IF k \in gone THEN <<>> ELSE <<pts[k]>>) \o Rest(gone, k + 1)
         IN  {Rest(gone, 1) : gone \in SUBSET removable}

\* One turn of the loop at lines 713-718
RemoveShort ==
    /\ pc = "short"
    /\ \E pts \in RemoveShortSegments(into.curve[idx].pts) :
        LET res == [into EXCEPT !.curve[idx].pts = pts]
            nx  == Step(BoolPhases, pc, idx, sha, shb, res)
        IN  /\ into' = res
            /\ pc' = nx.pc
            /\ idx' = nx.idx
    /\ UNCHANGED <<op, sha, shb, loc, hist>>
    /\ UNCHANGED <<kvars, svars>>
    /\ UNCHANGED <<uvars, evars>>

\* Lines 721-726: the edge lists are cleared and the classifying BSPs are
\* made again, of the split curves in the result
RemakeBsps ==
    /\ pc = "rebsp"
    /\ LET a == MakeClassifyingBsps(CleanupAfterBoolean(sha), TRUE, into.curve, 2)
           b == MakeClassifyingBsps(CleanupAfterBoolean(shb), TRUE, into.curve, 2)
           nx == Step(BoolPhases, pc, idx, a, b, into)
       IN  /\ sha' = a
           /\ shb' = b
           /\ pc' = nx.pc
           /\ idx' = nx.idx
    /\ UNCHANGED <<op, into, loc, hist>>
    /\ UNCHANGED <<kvars, svars>>
    /\ UNCHANGED <<uvars, evars>>


RECURSIVE InterSegs(_, _, _, _, _, _)
\* The loops at lines 436-447 from surface s of agnst and curve c of the
\* result on: the pwl segments of the intersection curves between surface h
\* and a surface of agnst, with whether that surface has no BSP
InterSegs(h, opA, agnst, curves, s, c) ==
    IF s > Len(agnst.surface) THEN <<>>
    ELSE IF c > Len(curves) THEN InterSegs(h, opA, agnst, curves, s + 1, 1)
    ELSE LET ss == agnst.surface[s]
             sc == curves[c]
             match == /\ sc.source = "INTERSECTION"
                      /\ IF opA THEN sc.surfA = h /\ sc.surfB = ss.h
                                ELSE sc.surfB = h /\ sc.surfA = ss.h
             segs == [k \in 1..(Len(sc.pts) - 1) |->
                        [null |-> ss.bsp.null, h |-> sc.h,
                         a |-> sc.pts[k].p, b |-> sc.pts[k + 1].p]]
         IN  (IF match THEN segs ELSE <<>>) \o InterSegs(h, opA, agnst, curves, s, c + 1)

\* What line 455 and the normals of line 469 may give for a segment: the
\* class of the segment in the BSP of ss, and whether the triple product is
\* negative (read only when the class is not OUTSIDE)
InterOracle(seg) ==
    {[c |-> "OUTSIDE", neg |-> FALSE]} \cup
    (IF seg.null THEN {} ELSE [c : BspClass \ {"OUTSIDE"}, neg : BOOLEAN])

RECURSIVE InterEdges(_, _, _, _)
\* Lines 455-476 for the segments from index k on: the edges added to inter
InterEdges(segs, f, flip, k) ==
    IF k > Len(segs) THEN <<>>
    ELSE LET b1 == IF f[k].neg THEN FALSE ELSE TRUE
             bkwds == IF flip THEN ~b1 ELSE b1
             e == IF f[k].c = "OUTSIDE" THEN <<>>
                  ELSE IF bkwds THEN <<Edge(segs[k].b, segs[k].a, segs[k].h, 1)>>
                  ELSE <<Edge(segs[k].a, segs[k].b, segs[k].h, 0)>>
         IN  e \o InterEdges(segs, f, flip, k + 1)

\* SShell::ClassifyEdge of agnst: the pairs <<indir_shell, outdir_shell>> it
\* may give; a shell of no surface has everything outside it
ShellClassifyEdge(agnst) ==
    IF agnst.surface = <<>> THEN {<<"OUTSIDE", "OUTSIDE">>}
    ELSE ShellClass \X ShellClass

\* TagByClassifiedEdge with the two edge classes exchanged
TagByClassifiedEdge_Exchanged(bspclass) ==
    CASE bspclass = "INSIDE" -> [indir |-> "INSIDE", outdir |-> "INSIDE"]
      [] bspclass = "OUTSIDE" -> [indir |-> "OUTSIDE", outdir |-> "OUTSIDE"]
      [] bspclass = "EDGE_PARALLEL" -> [indir |-> "OUTSIDE", outdir |-> "INSIDE"]
      [] bspclass = "EDGE_ANTIPARALLEL" -> [indir |-> "INSIDE", outdir |-> "OUTSIDE"]
      [] OTHER -> [indir |-> "OUTSIDE", outdir |-> "OUTSIDE"]

\* TagByClassifiedEdge
TagByClassifiedEdge(bspclass) ==
    CASE bspclass = "INSIDE" -> [indir |-> "INSIDE", outdir |-> "INSIDE"]
      [] bspclass = "OUTSIDE" -> [indir |-> "OUTSIDE", outdir |-> "OUTSIDE"]
      [] bspclass = "EDGE_PARALLEL" -> [indir |-> "INSIDE", outdir |-> "OUTSIDE"]
      [] bspclass = "EDGE_ANTIPARALLEL" -> [indir |-> "OUTSIDE", outdir |-> "INSIDE"]
      [] OTHER -> [indir |-> "OUTSIDE", outdir |-> "OUTSIDE"]

\* Lines 401-507 of SSurface::MakeCopyTrimAgainst for surface idx of the
\* operand: the copy, its trims by the split curves, orig, origBsp (held as
\* whether it is a tree), inter and the choosing points
TrimBegin(opA) ==
    /\ pc = IF opA THEN "trimA" ELSE "trimB"
    /\ loc.step = "call"
    /\ LET parent == IF opA THEN sha ELSE shb
           agnst  == IF opA THEN shb ELSE sha
           ss     == parent.surface[idx]
           flip   == op = "DIFFERENCE" /\ ~opA
           stn    == [k \in DOMAIN ss.trim |->
                        [ss.trim[k] EXCEPT
                            !.curve = FindById(parent.curve, ss.trim[k].curve).newH]]
           rtrim  == IF flip THEN ReverseTrims(stn) ELSE stn
           orig   == MakeEdgesInto(rtrim, into.curve, FALSE, <<>>, 1)
           segs   == InterSegs(ss.h, opA, agnst, into.curve, 1, 1)
       IN  \E f \in [DOMAIN segs -> UNION {InterOracle(segs[k]) : k \in DOMAIN segs}] :
            /\ \A k \in DOMAIN segs : f[k] \in InterOracle(segs[k])
            /\ LET inter == InterEdges(segs, f, flip, 1)
               IN  loc' = [step |-> "chains", ret |-> [ss EXCEPT !.trim = <<>>],
                           orig |-> orig, inter |-> inter, final |-> <<>>,
                           choosing |-> ChoosingPoints(orig, inter),
                           origBsp |-> (orig # <<>>),
                           orig0 |-> orig, inter0 |-> inter, chains |-> <<>>]
    /\ UNCHANGED <<op, pc, sha, shb, into, idx, hist>>
    /\ UNCHANGED <<kvars, svars>>
    /\ UNCHANGED <<uvars, evars>>

\* What the history loc.chains keeps of one turn of a chain loop: the chain,
\* the list it was taken from, the class origBsp gave it ("NONE" for a chain
\* of orig), the classes on the side of the surface, and the length of
\* final after the turn
ChainRecord(from, chain, c_this, indir_orig, outdir_orig, final) ==
    [from |-> from, chain |-> chain, c_this |-> c_this,
     indir_orig |-> indir_orig, outdir_orig |-> outdir_orig, nfinal |-> Len(final)]

\* TrimOrigChain that, of a chain it keeps, adds the first edge only
TrimOrigChain_FirstOnly(opA) ==
    /\ pc = IF opA THEN "trimA" ELSE "trimB"
    /\ loc.step = "chains"
    /\ loc.orig # <<>>
    /\ LET agnst == IF opA THEN shb ELSE sha
           r     == FindChainAvoiding(loc.orig, loc.choosing)
       IN  \E cls \in ShellClassifyEdge(agnst) :
            LET keep == KeepEdge(op, opA, cls[1], cls[2], "INSIDE", "OUTSIDE")
                fin  == IF keep THEN Append(loc.final, r.chain[1]) ELSE loc.final
            IN  /\ loc' = [loc EXCEPT !.orig = r.src, !.final = fin,
                                      !.chains = Append(@, ChainRecord("orig", r.chain,
                                                    "NONE", "INSIDE", "OUTSIDE", fin))]
                /\ hist' = [hist EXCEPT !.allOutside =
                                @ /\ cls = <<"OUTSIDE", "OUTSIDE">>]
    /\ UNCHANGED <<op, pc, sha, shb, into, idx>>
    /\ UNCHANGED <<kvars, svars>>
    /\ UNCHANGED <<uvars, evars>>

\* One turn of the loop at lines 509-541: a chain of orig is kept or dropped
TrimOrigChain(opA) ==
    /\ pc = IF opA THEN "trimA" ELSE "trimB"
    /\ loc.step = "chains"
    /\ loc.orig # <<>>
    /\ LET agnst == IF opA THEN shb ELSE sha
           r     == FindChainAvoiding(loc.orig, loc.choosing)
       IN  \E cls \in ShellClassifyEdge(agnst) :
            LET keep == KeepEdge(op, opA, cls[1], cls[2], "INSIDE", "OUTSIDE")
                fin  == IF keep THEN loc.final \o r.chain ELSE loc.final
            IN  /\ loc' = [loc EXCEPT !.orig = r.src, !.final = fin,
                                      !.chains = Append(@, ChainRecord("orig", r.chain,
                                                    "NONE", "INSIDE", "OUTSIDE", fin))]
                /\ hist' = [hist EXCEPT !.allOutside =
                                @ /\ cls = <<"OUTSIDE", "OUTSIDE">>]
    /\ UNCHANGED <<op, pc, sha, shb, into, idx>>
    /\ UNCHANGED <<kvars, svars>>
    /\ UNCHANGED <<uvars, evars>>

\* One turn of the loop at lines 543-574: a chain of inter is kept or dropped
TrimInterChain(opA) ==
    /\ pc = IF opA THEN "trimA" ELSE "trimB"
    /\ loc.step = "chains"
    /\ loc.orig = <<>>
    /\ loc.inter # <<>>
    /\ LET agnst == IF opA THEN shb ELSE sha
           r     == FindChainAvoiding(loc.inter, loc.choosing)
       IN  \E c_this \in (IF loc.origBsp THEN BspClass ELSE {"OUTSIDE"}) :
           \E cls \in ShellClassifyEdge(agnst) :
            LET tag  == TagByClassifiedEdge(c_this)
                keep == KeepEdge(op, opA, cls[1], cls[2], tag.indir, tag.outdir)
                fin  == IF keep THEN loc.final \o r.chain ELSE loc.final
            IN  loc' = [loc EXCEPT !.inter = r.src, !.final = fin,
                                   !.chains = Append(@, ChainRecord("inter", r.chain,
                                                    c_this, tag.indir, tag.outdir, fin))]
    /\ UNCHANGED <<op, pc, sha, shb, into, idx, hist>>
    /\ UNCHANGED <<kvars, svars>>
    /\ UNCHANGED <<uvars, evars>>

\* TrimFinish that sets the flag to whether this surface failed
TrimFinish_LastOnly(opA) ==
    /\ pc = IF opA THEN "trimA" ELSE "trimB"
    /\ loc.step = "chains"
    /\ loc.orig = <<>>
    /\ loc.inter = <<>>
    /\ LET parent == IF opA THEN sha ELSE shb
           final  == CullExtraneousEdges(loc.final)
           ok     == AssemblePolygon(final)
           ssn    == [loc.ret EXCEPT !.trim = TrimFromEdgeList(final)]
           res    == [into EXCEPT !.surface = AddAndAssignId(into.surface, ssn),
                                  !.booleanFailed = ~ok]
           np     == [parent EXCEPT !.surface[idx].newH = MaximumId(into.surface) + 1]
           nx     == Step(BoolPhases, pc, idx, sha, shb, res)
       IN  /\ into' = res
           /\ sha' = IF opA THEN np ELSE sha
           /\ shb' = IF opA THEN shb ELSE np
           /\ hist' = [hist EXCEPT !.failed = IF ok THEN @ ELSE @ + 1,
                                   !.trimmed = @ + 1]
           /\ pc' = nx.pc
           /\ idx' = nx.idx
    /\ loc' = NoLoc
    /\ UNCHANGED op
    /\ UNCHANGED <<kvars, svars>>
    /\ UNCHANGED <<uvars, evars>>

\* TrimFinish that does not note the handle of the copy
TrimFinish_NoNewH(opA) ==
    /\ pc = IF opA THEN "trimA" ELSE "trimB"
    /\ loc.step = "chains"
    /\ loc.orig = <<>>
    /\ loc.inter = <<>>
    /\ LET parent == IF opA THEN sha ELSE shb
           final  == CullExtraneousEdges(loc.final)
           ok     == AssemblePolygon(final)
           ssn    == [loc.ret EXCEPT !.trim = TrimFromEdgeList(final)]
           res    == [into EXCEPT !.surface = AddAndAssignId(into.surface, ssn),
                                  !.booleanFailed = IF ok THEN @ ELSE TRUE]
           np     == parent
           nx     == Step(BoolPhases, pc, idx, sha, shb, res)
       IN  /\ into' = res
           /\ sha' = IF opA THEN np ELSE sha
           /\ shb' = IF opA THEN shb ELSE np
           /\ hist' = [hist EXCEPT !.failed = IF ok THEN @ ELSE @ + 1,
                                   !.trimmed = @ + 1]
           /\ pc' = nx.pc
           /\ idx' = nx.idx
    /\ loc' = NoLoc
    /\ UNCHANGED op
    /\ UNCHANGED <<kvars, svars>>
    /\ UNCHANGED <<uvars, evars>>

\* Lines 576-598 and 606: final is culled, the copy is trimmed from it, a
\* final that does not assemble sets the flag, the copy is added to the
\* result and its handle noted
TrimFinish(opA) ==
    /\ pc = IF opA THEN "trimA" ELSE "trimB"
    /\ loc.step = "chains"
    /\ loc.orig = <<>>
    /\ loc.inter = <<>>
    /\ LET parent == IF opA THEN sha ELSE shb
           final  == CullExtraneousEdges(loc.final)
           ok     == AssemblePolygon(final)
           ssn    == [loc.ret EXCEPT !.trim = TrimFromEdgeList(final)]
           res    == [into EXCEPT !.surface = AddAndAssignId(into.surface, ssn),
                                  !.booleanFailed = IF ok THEN @ ELSE TRUE]
           np     == [parent EXCEPT !.surface[idx].newH = MaximumId(into.surface) + 1]
           nx     == Step(BoolPhases, pc, idx, sha, shb, res)
       IN  /\ into' = res
           /\ sha' = IF opA THEN np ELSE sha
           /\ shb' = IF opA THEN shb ELSE np
           /\ hist' = [hist EXCEPT !.failed = IF ok THEN @ ELSE @ + 1,
                                   !.trimmed = @ + 1]
           /\ pc' = nx.pc
           /\ idx' = nx.idx
    /\ loc' = NoLoc
    /\ UNCHANGED op
    /\ UNCHANGED <<kvars, svars>>
    /\ UNCHANGED <<uvars, evars>>

\* SCurve::GetSurfaceA and SCurve::GetSurfaceB
GetSurfaceA(sc, a, b) ==
    IF sc.source = "B" THEN FindById(b.surface, sc.surfA) ELSE FindById(a.surface, sc.surfA)

GetSurfaceB(sc, a, b) ==
    IF sc.source = "A" THEN FindById(a.surface, sc.surfB) ELSE FindById(b.surface, sc.surfB)

\* SShell::RewriteSurfaceHandlesForCurves
RewriteSurfaceHandlesForCurves(res, a, b) ==
    [res EXCEPT !.curve =
        [k \in DOMAIN res.curve |->
            [res.curve[k] EXCEPT !.surfA = GetSurfaceA(res.curve[k], a, b).newH,
                                 !.surfB = GetSurfaceB(res.curve[k], a, b).newH]]]

\* Line 740
Rewrite ==
    /\ pc = "rewrite"
    /\ into' = RewriteSurfaceHandlesForCurves(into, sha, shb)
    /\ LET nx == Step(BoolPhases, pc, idx, sha, shb, into)
       IN  pc' = nx.pc /\ idx' = nx.idx
    /\ UNCHANGED <<op, sha, shb, loc, hist>>
    /\ UNCHANGED <<kvars, svars>>
    /\ UNCHANGED <<uvars, evars>>

\* Lines 743-744
Cleanup ==
    /\ pc = "cleanup"
    /\ sha' = CleanupAfterBoolean(sha)
    /\ shb' = CleanupAfterBoolean(shb)
    /\ LET nx == Step(BoolPhases, pc, idx, sha, shb, into)
       IN  pc' = nx.pc /\ idx' = nx.idx
    /\ UNCHANGED <<op, into, loc, hist>>
    /\ UNCHANGED <<kvars, svars>>
    /\ UNCHANGED <<uvars, evars>>


\* SCurve::FromTransformationOf with no translation, no rotation and scale 1
CurveFromTransformationOf(c) ==
    [h |-> c.h, surfA |-> c.surfA, surfB |-> c.surfB, source |-> "A", newH |-> 0,
     pts |-> c.pts]

\* SSurface::FromTransformationOf with no translation, no rotation, scale 1
\* and includingTrims
SurfaceFromTransformationOf(ss) ==
    [h |-> ss.h, newH |-> 0, bsp |-> BspFrom(<<>>, 0), edges |-> <<>>, trim |-> ss.trim]

\* Line 652
AsmBegin ==
    /\ pc = "start"
    /\ op = "ASSEMBLY"
    /\ LET res == [into EXCEPT !.booleanFailed = FALSE]
           nx  == FirstFrom(AsmPhases, 1, sha, shb, res)
       IN  /\ into' = res
           /\ pc' = nx.pc
           /\ idx' = nx.idx
    /\ UNCHANGED <<op, sha, shb, loc, hist>>
    /\ UNCHANGED <<kvars, svars>>
    /\ UNCHANGED <<uvars, evars>>

\* One turn of the loop at lines 665-671
AsmCopyCurve(opA) ==
    /\ pc = IF opA THEN "asmCurvesA" ELSE "asmCurvesB"
    /\ LET ab  == IF opA THEN sha ELSE shb
           cn  == [CurveFromTransformationOf(ab.curve[idx]) EXCEPT
                        !.source = IF opA THEN "A" ELSE "B"]
           res == [into EXCEPT !.curve = AddAndAssignId(into.curve, cn)]
           np  == [ab EXCEPT !.curve[idx].newH = MaximumId(into.curve) + 1]
           nx  == Step(AsmPhases, pc, idx, sha, shb, res)
       IN  /\ into' = res
           /\ sha' = IF opA THEN np ELSE sha
           /\ shb' = IF opA THEN shb ELSE np
           /\ pc' = nx.pc
           /\ idx' = nx.idx
    /\ UNCHANGED <<op, loc, hist>>
    /\ UNCHANGED <<kvars, svars>>
    /\ UNCHANGED <<uvars, evars>>

\* AsmCopySurface that leaves the curve handles of the trims as they were
AsmCopySurface_OldCurves(opA) ==
    /\ pc = IF opA THEN "asmSurfacesA" ELSE "asmSurfacesB"
    /\ LET ab  == IF opA THEN sha ELSE shb
           sn  == SurfaceFromTransformationOf(ab.surface[idx])
           res == [into EXCEPT !.surface = AddAndAssignId(into.surface, sn)]
           np  == [ab EXCEPT !.surface[idx].newH = MaximumId(into.surface) + 1]
           nx  == Step(AsmPhases, pc, idx, sha, shb, res)
       IN  /\ into' = res
           /\ sha' = IF opA THEN np ELSE sha
           /\ shb' = IF opA THEN shb ELSE np
           /\ pc' = nx.pc
           /\ idx' = nx.idx
    /\ UNCHANGED <<op, loc, hist>>
    /\ UNCHANGED <<kvars, svars>>
    /\ UNCHANGED <<uvars, evars>>

\* One turn of the loop at lines 679-688
AsmCopySurface(opA) ==
    /\ pc = IF opA THEN "asmSurfacesA" ELSE "asmSurfacesB"
    /\ LET ab  == IF opA THEN sha ELSE shb
           sn0 == SurfaceFromTransformationOf(ab.surface[idx])
           sn  == [sn0 EXCEPT !.trim =
                        [k \in DOMAIN sn0.trim |->
                            [sn0.trim[k] EXCEPT
                                !.curve = FindById(ab.curve, sn0.trim[k].curve).newH]]]
           res == [into EXCEPT !.surface = AddAndAssignId(into.surface, sn)]
           np  == [ab EXCEPT !.surface[idx].newH = MaximumId(into.surface) + 1]
           nx  == Step(AsmPhases, pc, idx, sha, shb, res)
       IN  /\ into' = res
           /\ sha' = IF opA THEN np ELSE sha
           /\ shb' = IF opA THEN shb ELSE np
           /\ pc' = nx.pc
           /\ idx' = nx.idx
    /\ UNCHANGED <<op, loc, hist>>
    /\ UNCHANGED <<kvars, svars>>
    /\ UNCHANGED <<uvars, evars>>

\* Line 693
AsmRewrite ==
    /\ pc = "asmRewrite"
    /\ into' = RewriteSurfaceHandlesForCurves(into, sha, shb)
    /\ LET nx == Step(AsmPhases, pc, idx, sha, shb, into)
       IN  pc' = nx.pc /\ idx' = nx.idx
    /\ UNCHANGED <<op, sha, shb, loc, hist>>
    /\ UNCHANGED <<kvars, svars>>
    /\ UNCHANGED <<uvars, evars>>

Next ==
    \/ BoolBegin
    \/ CopyCurveSplit(TRUE)
    \/ CopyCurveSplit(FALSE)
    \/ IntersectPair
    \/ RemoveShort
    \/ RemakeBsps
    \/ TrimBegin(TRUE)
    \/ TrimBegin(FALSE)
    \/ TrimOrigChain(TRUE)
    \/ TrimOrigChain(FALSE)
    \/ TrimInterChain(TRUE)
    \/ TrimInterChain(FALSE)
    \/ TrimFinish(TRUE)
    \/ TrimFinish(FALSE)
    \/ Rewrite
    \/ Cleanup
    \/ AsmBegin
    \/ AsmCopyCurve(TRUE)
    \/ AsmCopyCurve(FALSE)
    \/ AsmCopySurface(TRUE)
    \/ AsmCopySurface(FALSE)
    \/ AsmRewrite

Spec == Init /\ [][Next]_vars

\* A turn of one of the chain loops of MakeCopyTrimAgainst
ChainTurn ==
    \/ TrimOrigChain(TRUE)
    \/ TrimOrigChain(FALSE)
    \/ TrimInterChain(TRUE)
    \/ TrimInterChain(FALSE)

\* A turn can be taken: a chain loop is running and its list is not empty
\* (the guards of TrimOrigChain and TrimInterChain)
CanTurn ==
    /\ pc \in {"trimA", "trimB"}
    /\ loc.step = "chains"
    /\ loc.orig # <<>> \/ loc.inter # <<>>

\* The chain loops run on: a turn that can be taken is taken.  This is weak
\* fairness of ChainTurn, with its enabling condition written out.
SpecLive == Spec /\ ([]<>~CanTurn \/ []<><<ChainTurn>>_vars)


(***************************************************************************)
(* Keep policy: properties                                                 *)
(***************************************************************************)
\* The truth table of the keep policy as the specification states it
KeepTable(type, opA, side_shell, side_orig) ==
    IF side_orig = "OUTSIDE" THEN FALSE
    ELSE IF opA THEN side_shell = "OUTSIDE"
    ELSE IF type = "UNION" THEN side_shell \in {"OUTSIDE", "COINC_SAME"}
    ELSE side_shell \in {"INSIDE", "COINC_SAME"}

\* C1: KeepRegion equals the specification's truth table for every op, every
\* operand, every shell classification and every orig classification: false
\* when side_orig = OUTSIDE; otherwise UNION-A and DIFFERENCE-A keep iff
\* side_shell = OUTSIDE, UNION-B iff OUTSIDE or COINC_SAME, DIFFERENCE-B iff
\* INSIDE or COINC_SAME.
C1_KeepRegionTruthTable ==
    kpc = "called" =>
        /\ kout.regionIn  = KeepTable(kin.type, kin.opA, kin.indir_shell,  kin.indir_orig)
        /\ kout.regionOut = KeepTable(kin.type, kin.opA, kin.outdir_shell, kin.outdir_orig)

C1_Witness ==
    /\ kpc = "called"
    /\ kin.type = "DIFFERENCE" /\ ~kin.opA
    /\ kin.indir_shell = "COINC_SAME" /\ kin.indir_orig = "INSIDE"
    /\ kin.outdir_shell = "OUTSIDE" /\ kin.outdir_orig = "INSIDE"
    /\ kout.regionIn /\ ~kout.regionOut

\* C2: KeepEdge returns true iff KeepRegion on the in-normal side is true and
\* KeepRegion on the out-normal side is false; an edge whose two sides are
\* both kept or both dropped is never kept.
C2_KeepEdgeInNotOut ==
    kpc = "called" =>
        /\ kout.edge = (KeepTable(kin.type, kin.opA, kin.indir_shell, kin.indir_orig)
                        /\ ~KeepTable(kin.type, kin.opA, kin.outdir_shell, kin.outdir_orig))
        /\ kout.edge = (kout.regionIn /\ ~kout.regionOut)
        /\ (kout.regionIn = kout.regionOut) => ~kout.edge

C2_Witness ==
    /\ kpc = "called"
    /\ kout.regionIn /\ kout.regionOut /\ ~kout.edge
    /\ kin.indir_shell # kin.outdir_shell

\* The two shell classes operand B keeps under the operation
KeptByB(type) ==
    IF type = "UNION" THEN {"OUTSIDE", "COINC_SAME"} ELSE {"INSIDE", "COINC_SAME"}

\* The one family of arguments where exchanging the shell classes keeps the edge
BothKept ==
    /\ ~kin.opA
    /\ kin.indir_orig = "INSIDE" /\ kin.outdir_orig = "OUTSIDE"
    /\ {kin.indir_shell, kin.outdir_shell} = KeptByB(kin.type)

\* C3 as stated: for L # R and the same orig-side arguments in both calls,
\* KeepEdge(type, opA, L, R, ...) implies ~KeepEdge(type, opA, R, L, ...).
C3_AntiSymmetryAsStated ==
    (kpc = "called" /\ kin.indir_shell # kin.outdir_shell /\ kout.edge) => ~kout.swapped

\* C3 as amended: for L # R, KeepEdge(type, opA, L, R, io, oo) and
\* KeepEdge(type, opA, R, L, io, oo) are both true exactly when the operand
\* is B, io = INSIDE, oo = OUTSIDE and L, R are the two shell classes that
\* operand B keeps; in every other case the anti-symmetry holds.
C3_AntiSymmetryAmended ==
    (kpc = "called" /\ kin.indir_shell # kin.outdir_shell) =>
        ((kout.edge /\ kout.swapped) <=> BothKept)

C3_Witness ==
    /\ kpc = "called"
    /\ kin.indir_shell # kin.outdir_shell
    /\ ~kin.opA /\ kin.indir_orig = "INSIDE" /\ kin.outdir_orig = "INSIDE"
    /\ kout.edge /\ ~kout.swapped

(***************************************************************************)
(* Curve splitter: properties                                              *)
(***************************************************************************)
\* out holds the points of orig in their order, the first of orig first and
\* the last of orig last
IsSplitOf(orig, out) ==
    \E f \in [1..Len(orig) -> 1..Len(out)] :
        /\ f[1] = 1
        /\ f[Len(orig)] = Len(out)
        /\ \A i \in 1..(Len(orig) - 1) : f[i] < f[i + 1]
        /\ \A i \in 1..Len(orig) : out[f[i]] = orig[i]

\* C4: curve preservation under split: the pwl that MakeCopySplitAgainst
\* returns holds every original pwl point in the original order, first and
\* last included, and every added point lies between two consecutive
\* original points, never before the first or after the last.
C4_CurvePreservedUnderSplit ==
    spc = "done" => IsSplitOf(cpts, ret)

C4_Witness ==
    /\ spc = "done"
    /\ Len(cpts) = 3
    /\ Len(ret) = Len(cpts) + 2 * MaxInter
    /\ ret[2].p = cpts[1].p

\* The points the current loop turn added to ret
AddedPts == {ret[k].p : k \in (nret + 1)..Len(ret)}

\* Intersection i of il left a split point
ProducesSplit(i) == il[i].tag = 0 /\ il[i].p \in AddedPts

\* The class of intersection i on its surface, and whether it lies within
\* the chord tolerance of the edges of that surface's BSP
ClassOf(i) ==
    LET srf == SplitSurfaces[il[i].srf]
    IN  IF srf.bsp = NullBsp THEN "OUTSIDE"
        ELSE ClassifyPoint(srf.bsp, 1, il[i].puv, <<0, 0>>, srf)

WithinChordTol(i) ==
    LET srf == SplitSurfaces[il[i].srf]
    IN  /\ srf.bsp # NullBsp
        /\ ~DistAbove(MinimumDistanceToEdge(srf.bsp, 1, il[i].puv, srf), ChordTol)

\* C10 as stated: an intersection on a surface other than srfA and srfB
\* produces a split point iff it is classified INSIDE, or OUTSIDE and within
\* CHORD_TOL of the trim boundary; with any other classification it is
\* dropped.
C10_SplitFilterAsStated ==
    spc = "emitted" =>
        \A i \in DOMAIN il : il[i].srf \notin {"srfA", "srfB"} =>
            (ProducesSplit(i) <=>
                (ClassOf(i) = "INSIDE" \/ (ClassOf(i) = "OUTSIDE" /\ WithinChordTol(i))))

\* C10 as amended: an intersection on a surface other than srfA and srfB
\* produces a split point iff its class is not OUTSIDE (INSIDE or one of the
\* three edge classes), or it is OUTSIDE and MinimumDistanceToEdge is at
\* most CHORD_TOL; it is dropped iff it is OUTSIDE and farther than
\* CHORD_TOL, which includes every intersection on a surface without a BSP.
\* The points added are exactly the points of the intersections kept.
C10_SplitFilterAmended ==
    spc = "emitted" =>
        /\ \A i \in DOMAIN il : il[i].srf \notin {"srfA", "srfB"} =>
                (ProducesSplit(i) <=> (ClassOf(i) # "OUTSIDE" \/ WithinChordTol(i)))
        /\ \A i \in DOMAIN il :
                (il[i].srf \notin {"srfA", "srfB"} /\ SplitSurfaces[il[i].srf].bsp = NullBsp)
                    => ~ProducesSplit(i)
        /\ AddedPts = {il[i].p : i \in {j \in DOMAIN il : il[j].tag = 0}}

C10_Witness ==
    /\ spc = "emitted"
    /\ Len(il) = 2
    /\ il[1].srf = "S1" /\ ClassOf(1) = "OUTSIDE" /\ WithinChordTol(1) /\ ProducesSplit(1)
    /\ il[2].srf = "S1" /\ ClassOf(2) = "OUTSIDE" /\ ~WithinChordTol(2) /\ ~ProducesSplit(2)


\* The curve that is split has no two consecutive points that are equal
NoRepeatedPoint(pts) == \A k \in 1..(Len(pts) - 1) : pts[k].p # pts[k + 1].p

\* C11 as stated: for an input curve without repeated consecutive points the
\* split curve holds no zero-length edge: no two consecutive points of the
\* returned pwl are equal, whatever the refined intersections were.
C11_NoZeroLengthAsStated ==
    (spc = "done" /\ NoRepeatedPoint(cpts)) => NoRepeatedPoint(ret)

\* C11 as amended: a split point is skipped when it equals the intersection
\* before it in the sorted list of the same segment, and the first one of a
\* segment is compared with VERY_POSITIVE, not with the output pwl; so no two
\* consecutive points added for one segment are equal, and every point of a
\* kept intersection is added.
C11_NoZeroLengthAmended ==
    spc = "emitted" =>
        /\ \A k \in (nret + 1)..(Len(ret) - 1) : ret[k].p # ret[k + 1].p
        /\ AddedPts = {il[i].p : i \in {j \in DOMAIN il : il[j].tag = 0}}

\* Two kept intersections at one point left one split point, and that point
\* is the start of the segment, already in the output pwl
C11_Witness ==
    /\ spc = "emitted"
    /\ NoRepeatedPoint(cpts)
    /\ Len(il) = 2
    /\ il[1].tag = 0 /\ il[2].tag = 0
    /\ il[1].p = il[2].p
    /\ Len(ret) = nret + 1
    /\ ret[nret].p = ret[nret + 1].p


(***************************************************************************)
(* Orchestrators: properties                                               *)
(***************************************************************************)
\* The run is a Boolean, or an assembly, and has returned
BoolDone == pc = "done" /\ op \in CombineAs

AsmDone == pc = "done" /\ op = "ASSEMBLY"

\* The handle h names exactly one element of the id list
NamesOne(list, h) == Cardinality({k \in DOMAIN list : list[k].h = h}) = 1

\* The elements of the sequence q differ from one another
AllDistinct(q) == \A j, k \in DOMAIN q : j # k => q[j] # q[k]

NewHs(list) == [k \in DOMAIN list |-> list[k].newH]

\* C5: after MakeFromBoolean or MakeFromAssemblyOf the newH of every curve
\* and of every surface of the operands names exactly one curve or surface
\* of the result, different inputs have different newH, and surfA and surfB
\* of every curve of the result are handles of surfaces of the result.
C5_HandleBijection ==
    pc = "done" =>
        /\ \A k \in DOMAIN sha.curve : NamesOne(into.curve, sha.curve[k].newH)
        /\ \A k \in DOMAIN shb.curve : NamesOne(into.curve, shb.curve[k].newH)
        /\ \A k \in DOMAIN sha.surface : NamesOne(into.surface, sha.surface[k].newH)
        /\ \A k \in DOMAIN shb.surface : NamesOne(into.surface, shb.surface[k].newH)
        /\ AllDistinct(NewHs(sha.curve) \o NewHs(shb.curve))
        /\ AllDistinct(NewHs(sha.surface) \o NewHs(shb.surface))
        /\ \A k \in DOMAIN into.curve :
                /\ NamesOne(into.surface, into.curve[k].surfA)
                /\ NamesOne(into.surface, into.curve[k].surfB)

\* A Boolean of two operands with surfaces has returned, an intersection
\* curve was added, and the surface of handle 1 of b was given another handle
C5_Witness ==
    /\ BoolDone
    /\ Len(sha.surface) = 2
    /\ Len(shb.surface) = 3
    /\ \E k \in DOMAIN into.curve : into.curve[k].source = "INTERSECTION"
    /\ shb.surface[1].h = 1
    /\ shb.surface[1].newH = 3

\* C6: MakeFromBoolean clears booleanFailed when it starts; from then on the
\* flag is set exactly when the final edge list of some surface has failed
\* to assemble, so it is never cleared again; and on return every surface of
\* both operands has been trimmed and copied.
C6_StickyFailureFlag ==
    (op \in CombineAs /\ pc # "start") =>
        /\ into.booleanFailed <=> (hist.failed > 0)
        /\ hist.trimmed = Len(into.surface)
        /\ pc = "done" => hist.trimmed = Len(sha.surface) + Len(shb.surface)

\* A Boolean has returned with the flag set: the final of one surface did not
\* assemble, four more were trimmed, and the last of them has a closed trim
C6_Witness ==
    /\ BoolDone
    /\ into.booleanFailed
    /\ hist.failed = 1
    /\ hist.trimmed = 5
    /\ into.surface[5].trim # <<>>
    /\ AssemblePolygon(MakeEdgesInto(into.surface[5].trim, into.curve, FALSE, <<>>, 1))

\* The fields of the operand surfaces and curves that are not scratch
Strip(shell) ==
    [curve |-> [k \in DOMAIN shell.curve |->
                    [h |-> shell.curve[k].h, surfA |-> shell.curve[k].surfA,
                     surfB |-> shell.curve[k].surfB, source |-> shell.curve[k].source,
                     pts |-> shell.curve[k].pts]],
     surface |-> [k \in DOMAIN shell.surface |->
                    [h |-> shell.surface[k].h, trim |-> shell.surface[k].trim]]]

OperandsUnchanged ==
    /\ Strip(sha) = Strip(Orange(Len(sha.surface), 0))
    /\ Strip(shb) = Strip(Orange(Len(shb.surface), 10))

\* C7 as stated: after MakeFromBoolean every operand surface has an empty
\* edge list, a BSP pointer that is not a tree built during the run and a
\* cleared newH, every operand curve has a cleared newH, and the operands
\* are otherwise unchanged.
C7_ScratchResetAsStated ==
    BoolDone =>
        /\ \A sh \in {sha, shb} :
            /\ \A k \in DOMAIN sh.surface :
                /\ sh.surface[k].edges = <<>>
                /\ sh.surface[k].bsp.gen = 0
                /\ sh.surface[k].newH = 0
            /\ \A k \in DOMAIN sh.curve : sh.curve[k].newH = 0
        /\ OperandsUnchanged

\* C7, amended: after MakeFromBoolean every operand surface has an empty
\* edge list, its BSP pointer is still what the second call of
\* MakeClassifyingBsps made of the split curves, the newH of every operand
\* surface and curve still names its copy in the result, and the operands
\* are otherwise unchanged.
C7_ScratchResetAmended ==
    BoolDone =>
        /\ \A sh \in {sha, shb} :
            /\ \A k \in DOMAIN sh.surface :
                /\ sh.surface[k].edges = <<>>
                /\ sh.surface[k].bsp =
                        BspFrom(MakeEdgesInto(sh.surface[k].trim, sh.curve, TRUE,
                                              into.curve, 1), 2)
                /\ NamesOne(into.surface, sh.surface[k].newH)
            /\ \A k \in DOMAIN sh.curve : NamesOne(into.curve, sh.curve[k].newH)
        /\ OperandsUnchanged

\* A Boolean has returned; the first surface of a has no edges, the tree of
\* the second call and the handle of its copy
C7_Witness ==
    /\ BoolDone
    /\ Len(sha.surface) = 2
    /\ sha.surface[1].edges = <<>>
    /\ sha.surface[1].bsp.gen = 2
    /\ sha.surface[1].newH = 1
    /\ sha.curve[1].newH = 1

\* Scenario S1: the run has returned, no intersection curve was added and
\* every chain of every surface was classified outside the other shell
Disjoint ==
    /\ BoolDone
    /\ hist.allOutside
    /\ \A k \in DOMAIN into.curve : into.curve[k].source # "INTERSECTION"

\* The trims of an operand surface, with the handles of the result curves
CopiedTrims(sh, k) ==
    [t \in DOMAIN sh.surface[k].trim |->
        [sh.surface[k].trim[t] EXCEPT
            !.curve = FindById(sh.curve, sh.surface[k].trim[t].curve).newH]]

\* The trim lists have the same trims, in whatever order
SameTrims(t1, t2) ==
    /\ Len(t1) = Len(t2)
    /\ {t1[k] : k \in DOMAIN t1} = {t2[k] : k \in DOMAIN t2}

\* C8 as stated: in scenario S1 a union has |A| + |B| faces, a difference is
\* identical to A with exactly |A| faces, and booleanFailed is false.
C8_DisjointAsStated ==
    Disjoint =>
        /\ ~into.booleanFailed
        /\ op = "UNION" => Len(into.surface) = Len(sha.surface) + Len(shb.surface)
        /\ op = "DIFFERENCE" =>
            /\ Len(into.surface) = Len(sha.surface)
            /\ Len(into.curve) = Len(sha.curve)
            /\ \A k \in DOMAIN sha.surface : SameTrims(into.surface[k].trim, CopiedTrims(sha, k))

\* C8, amended: in scenario S1 booleanFailed is false and the result has
\* |A| + |B| surfaces and all the curves of A and of B, for a union and for
\* a difference.  The copies of the surfaces of A come first and keep the
\* trims of A, in some order.  The copies of the surfaces of B keep the
\* trims of B in a union and have no trim in a difference.
C8_DisjointAmended ==
    Disjoint =>
        /\ ~into.booleanFailed
        /\ Len(into.surface) = Len(sha.surface) + Len(shb.surface)
        /\ Len(into.curve) = Len(sha.curve) + Len(shb.curve)
        /\ \A k \in DOMAIN sha.surface : SameTrims(into.surface[k].trim, CopiedTrims(sha, k))
        /\ \A k \in DOMAIN shb.surface :
                SameTrims(into.surface[Len(sha.surface) + k].trim,
                          IF op = "UNION" THEN CopiedTrims(shb, k) ELSE <<>>)

\* A difference of disjoint operands of two and of three surfaces has
\* returned, and a curve was split on the way
C8_Witness ==
    /\ Disjoint
    /\ op = "DIFFERENCE"
    /\ Len(sha.surface) = 2
    /\ Len(shb.surface) = 3
    /\ hist.nmeet = 1

\* C9: MakeFromAssemblyOf on an empty result leaves |A.curve| + |B.curve|
\* curves and |A.surface| + |B.surface| surfaces, those of A first; every
\* copied surface has the trims of its source with the curve replaced by
\* the newH of that curve in the same operand; every copied curve has the
\* pwl of its source and the tag of its operand; booleanFailed is false.
C9_AssemblyPureCopy ==
    AsmDone =>
        /\ ~into.booleanFailed
        /\ Len(into.curve) = Len(sha.curve) + Len(shb.curve)
        /\ Len(into.surface) = Len(sha.surface) + Len(shb.surface)
        /\ \A k \in DOMAIN sha.curve :
                /\ sha.curve[k].newH = into.curve[k].h
                /\ into.curve[k].source = "A"
                /\ into.curve[k].pts = sha.curve[k].pts
        /\ \A k \in DOMAIN shb.curve :
                /\ shb.curve[k].newH = into.curve[Len(sha.curve) + k].h
                /\ into.curve[Len(sha.curve) + k].source = "B"
                /\ into.curve[Len(sha.curve) + k].pts = shb.curve[k].pts
        /\ \A k \in DOMAIN sha.surface :
                /\ sha.surface[k].newH = into.surface[k].h
                /\ into.surface[k].trim = CopiedTrims(sha, k)
        /\ \A k \in DOMAIN shb.surface :
                /\ shb.surface[k].newH = into.surface[Len(sha.surface) + k].h
                /\ into.surface[Len(sha.surface) + k].trim = CopiedTrims(shb, k)

\* An assembly of operands of two and of three surfaces has returned; the
\* first trim of the first surface of b names curve 3 of the result
C9_Witness ==
    /\ AsmDone
    /\ Len(sha.surface) = 2
    /\ Len(shb.surface) = 3
    /\ Len(into.surface) = 5
    /\ into.surface[3].trim[1].curve = 3


(***************************************************************************)
(* UV-BSP: properties                                                      *)
(***************************************************************************)
\* Segment f of the arena holds p: the scaled distance from p to it is
\* below LENGTH_EPS
OnSegment(f, p) ==
    LET as == Scale(utree[f].a, usrf)
        bs == Scale(utree[f].b, usrf)
        ps == Scale(p, usrf)
    IN  /\ Dot(Minus(ps, as), Normal(Minus(bs, as))) = 0
        /\ Dot(Minus(ps, as), Minus(bs, as)) >= 0
        /\ Dot(Minus(ps, bs), Minus(as, bs)) >= 0

RECURSIVE MoreChain(_)
\* Node f and the nodes of its more chain
MoreChain(f) == IF f = 0 THEN {} ELSE {f} \cup MoreChain(utree[f].more)

\* ClassifyPoint was asked about a point within epsilon of the line of the
\* node and on none of the segments of the node
OnLineOffSegments ==
    /\ upc = "asked"
    /\ ScaledSignedDistanceToLine(uq.p, utree[uq.node].a, utree[uq.node].b, usrf) = 0
    /\ \A f \in MoreChain(uq.node) : ~OnSegment(f, uq.p)

\* What ClassifyPoint returns for the query on child c
ChildClass(c) == ClassifyPoint(utree, c, uq.p, uq.eb, usrf)

\* C12 as stated: the tie-break returns the classification of the child that
\* exists, the pos child when only pos exists, the neg child when only neg
\* exists, and the neg child when both exist.
C12_TieBreakAsStated ==
    OnLineOffSegments =>
        LET nd == utree[uq.node]
        IN  /\ (nd.pos # 0 /\ nd.neg = 0) => uq.cls = ChildClass(nd.pos)
            /\ nd.neg # 0 => uq.cls = ChildClass(nd.neg)

\* C12 as amended: the tie-break returns the classification of the neg child
\* when neg exists, and OUTSIDE when it does not, whether pos exists or not.
C12_TieBreakAmended ==
    OnLineOffSegments =>
        LET nd == utree[uq.node]
        IN  uq.cls = IF nd.neg # 0 THEN ChildClass(nd.neg) ELSE "OUTSIDE"

\* Only pos exists and classifies the point INSIDE; the answer is OUTSIDE
C12_Witness ==
    /\ OnLineOffSegments
    /\ utree[uq.node].pos # 0
    /\ utree[uq.node].neg = 0
    /\ ChildClass(utree[uq.node].pos) = "INSIDE"
    /\ uq.cls = "OUTSIDE"


\* Segment nd lies on edge e and runs in its direction
OnEdge(nd, e) ==
    LET d == Minus(e.b, e.a)
    IN  /\ Dot(Minus(nd.a, e.a), Normal(d)) = 0
        /\ Dot(Minus(nd.b, e.a), Normal(d)) = 0
        /\ Dot(Minus(nd.b, nd.a), d) > 0
        /\ Dot(Minus(nd.a, e.a), d) >= 0
        /\ Dot(Minus(nd.b, e.a), d) <= Dot(d, d)

\* The edges inserted so far that node i can be a piece of
PieceOf(i) == {j \in 1..(uk - 1) : OnEdge(utree[i], uwork[j])}

RECURSIVE Assigns(_)
\* The ways to name, for each of the nodes 1..k, the inserted edge it is a
\* piece of
Assigns(k) ==
    IF k = 0 THEN {<<>>}
    ELSE {Append(f, j) : f \in Assigns(k - 1), j \in PieceOf(k)}

\* The segments of the nodes of S join end to end from e.a to e.b
ChainOf(S, e) ==
    /\ Cardinality({i \in S : utree[i].a = e.a}) = 1
    /\ Cardinality({i \in S : utree[i].b = e.b}) = 1
    /\ \A i \in S : utree[i].b = e.b
                        \/ Cardinality({j \in S : utree[j].a = utree[i].b}) = 1
    /\ \A i \in S : utree[i].a = e.a
                        \/ Cardinality({j \in S : utree[j].b = utree[i].a}) = 1

\* Every inserted edge is whole in one node or in pieces that concatenate to
\* it, and every node is a piece of exactly one inserted edge
RepresentedOnce ==
    \E f \in Assigns(Len(utree)) :
        \A j \in 1..(uk - 1) : ChainOf({i \in DOMAIN utree : f[i] = j}, uwork[j])

\* Every node but the root is the pos, neg or more of exactly one node
StoredOnce ==
    \A i \in DOMAIN utree :
        Cardinality({x \in (DOMAIN utree) \X {"pos", "neg", "more"} : utree[x[1]][x[2]] = i})
            = IF i = 1 THEN 0 ELSE 1

RECURSIVE Under(_)
\* The nodes of the subtree of node c, more chains included
Under(c) ==
    IF c = 0 THEN {}
    ELSE {c} \cup Under(utree[c].pos) \cup Under(utree[c].neg) \cup Under(utree[c].more)

\* No segment under pos has an endpoint on the negative side of the line of
\* the node, and none under neg has one on the positive side
SidesRespected ==
    \A i \in DOMAIN utree :
        LET sd(q) == ScaledSignedDistanceToLine(q, utree[i].a, utree[i].b, usrf)
        IN  /\ \A j \in Under(utree[i].pos) : sd(utree[j].a) >= 0 /\ sd(utree[j].b) >= 0
            /\ \A j \in Under(utree[i].neg) : sd(utree[j].a) <= 0 /\ sd(utree[j].b) <= 0

\* The work list holds the edges of the list passed, longest first
LongestFirst ==
    /\ Len(uwork) = Len(uel)
    /\ \A e \in BspEdgePool :
            Cardinality({i \in DOMAIN uwork : uwork[i] = e})
                = Cardinality({i \in DOMAIN uel : uel[i] = e})
    /\ \A i \in 1..(Len(uwork) - 1) : LenSq(uwork[i]) >= LenSq(uwork[i + 1])

\* C13: From inserts the edges in nonincreasing order of length, and after
\* each insertion every inserted edge is represented exactly once, whole in
\* one node or as pieces in one node each that concatenate to the edge, and
\* every segment under a pos (neg) child has no endpoint on the negative
\* (positive) side of the line of the node.
C13_FromInvariant ==
    upc \in {"insert", "built"} =>
        /\ LongestFirst
        /\ RepresentedOnce
        /\ StoredOnce
        /\ SidesRespected

\* A list of three edges was built into a tree with a split edge and a
\* coincident segment
C13_Witness ==
    /\ upc = "built"
    /\ Len(uel) = 3
    /\ Len(utree) > Len(uel)
    /\ \E i \in DOMAIN utree : utree[i].more # 0
    /\ \E i \in DOMAIN utree : utree[i].pos # 0 /\ utree[i].neg # 0


\* Two distances are equal
DistEq(x, y) == ~DistLess(x, y) /\ ~DistLess(y, x)

\* The scaled distance from p to the segment of edge e
SegmentDistance(p, e) ==
    DistanceToLine(Scale(p, usrf), Scale(e.a, usrf),
                   Minus(Scale(e.b, usrf), Scale(e.a, usrf)), TRUE)

\* Edge j of the list is nearest to p
Nearest(p, j) ==
    \A k \in DOMAIN uel : ~DistLess(SegmentDistance(p, uel[k]), SegmentDistance(p, uel[j]))

\* C14: MinimumDistanceToEdge(p) on the tree From built returns the least
\* scaled distance from p to a segment inserted into the tree, the segments
\* kept in more chains included.
C14_NearestEdgeDistance ==
    upc = "measured" =>
        \E j \in DOMAIN uel : Nearest(uq.p, j) /\ DistEq(uq.dist, SegmentDistance(uq.p, uel[j]))


(***************************************************************************)
(* Edge-list routines: properties                                          *)
(***************************************************************************)
\* The choosing points were computed for the lists of ein
Chose == epc = "called" /\ ein.fn = "choosing"

Chained == epc = "called" /\ ein.fn = "chain"

\* How many times edge e is in the list l
CountOf(l, e) == Cardinality({i \in DOMAIN l : l[i] = e})

\* The list sub is l with some of its elements removed
IsSubSeq(sub, l) ==
    \E g \in [DOMAIN sub -> DOMAIN l] :
        /\ \A i \in DOMAIN sub : sub[i] = l[g[i]]
        /\ \A i \in 1..(Len(sub) - 1) : g[i] < g[i + 1]

\* C16: FindChainAvoiding on a source list that is not empty returns a chain
\* that is not empty, whose consecutive edges join head to tail at points
\* that are not in the avoid set, that no edge left in the source can extend
\* at an end that is not in the avoid set, and the source loses exactly the
\* edges of the chain.
C16_FindChainAvoiding ==
    Chained =>
        LET ch == eout.chain
        IN  /\ ch # <<>>
            /\ \A i \in 1..(Len(ch) - 1) : ch[i].b = ch[i + 1].a
            /\ \A i \in 1..(Len(ch) - 1) : ch[i].b \notin ein.avoid
            /\ \A k \in DOMAIN eout.src :
                    /\ ~(ch[1].a \notin ein.avoid /\ eout.src[k].b = ch[1].a)
                    /\ ~(ch[Len(ch)].b \notin ein.avoid /\ eout.src[k].a = ch[Len(ch)].b)
            /\ \A e \in {ein.el[i] : i \in DOMAIN ein.el} :
                    CountOf(ein.el, e) = CountOf(ch, e) + CountOf(eout.src, e)
            /\ Len(ein.el) = Len(ch) + Len(eout.src)
            /\ IsSubSeq(eout.src, ein.el)

\* A chain of two edges that stops at a point to avoid where an edge left in
\* the source could have joined, and was extended at its start
C16_Witness ==
    /\ Chained
    /\ Len(eout.chain) = 2
    /\ eout.chain[2] = ein.el[1]
    /\ eout.chain[2].b \in ein.avoid
    /\ \E k \in DOMAIN eout.src : eout.src[k].a = eout.chain[2].b


\* TrimFromEdgeList was called on the list of ein
Trimmed == epc = "called" /\ ein.fn = "trim"

\* The edges of el numbered in S, taken in some order, are one head-to-tail
\* run from stb.start to stb.finish
RunOf(el, S, stb) ==
    \E w \in [1..Cardinality(S) -> S] :
        /\ \A i, j \in 1..Cardinality(S) : i # j => w[i] # w[j]
        /\ el[w[1]].a = stb.start
        /\ el[w[Cardinality(S)]].b = stb.finish
        /\ \A i \in 1..(Cardinality(S) - 1) : el[w[i]].b = el[w[i + 1]].a

\* C18: TrimFromEdgeList puts every edge of the list in exactly one trim;
\* the edges of a trim are one head-to-tail run of edges of the same curve
\* (auxA) and direction (auxB), and start and finish are the two ends of
\* the run; no two trims of the same curve and direction have the finish of
\* one equal to the start of the other.
C18_TrimFromEdgeList ==
    Trimmed =>
        LET el == ein.el
            tr == eout.trims
        IN  /\ \E g \in [DOMAIN el -> DOMAIN tr] :
                    \A t \in DOMAIN tr :
                        LET S == {i \in DOMAIN el : g[i] = t}
                        IN  /\ S # {}
                            /\ \A i \in S : /\ el[i].auxA = tr[t].curve
                                            /\ (el[i].auxB # 0) = tr[t].backwards
                            /\ RunOf(el, S, tr[t])
            /\ (el = <<>>) = (tr = <<>>)
            /\ \A t, u \in DOMAIN tr :
                    (t # u /\ tr[t].curve = tr[u].curve /\ tr[t].backwards = tr[u].backwards)
                        => tr[t].finish # tr[u].start

\* Three edges of one curve and direction made two trims: the first two
\* edges were merged into one run, and the third runs between the same ends
C18_Witness ==
    /\ Trimmed
    /\ Len(ein.el) = 3
    /\ Len(eout.trims) = 2
    /\ eout.trims[1].curve = eout.trims[2].curve
    /\ eout.trims[1].backwards = eout.trims[2].backwards
    /\ ein.el[1].b = ein.el[2].a
    /\ eout.trims[1].start = ein.el[1].a
    /\ eout.trims[1].finish = ein.el[2].b
    /\ eout.trims[1].start # eout.trims[1].finish
    /\ eout.trims[2].start = eout.trims[1].start


(***************************************************************************)
(* The chain loops of MakeCopyTrimAgainst: properties                      *)
(***************************************************************************)
\* The length of final before turn i of the chain loops
FinalBefore(i) == IF i = 1 THEN 0 ELSE loc.chains[i - 1].nfinal

\* Turn i of the chain loops added edges to final
Added(i) == loc.chains[i].nfinal > FinalBefore(i)

\* The turns of the chain loops that took a chain from inter
InterTurns == {i \in DOMAIN loc.chains : loc.chains[i].from = "inter"}

InChainLoops == loc.step = "chains"

\* Both chain loops have ended: orig and inter are empty, final is not yet
\* culled
ChainLoopsDone == loc.step = "chains" /\ loc.orig = <<>> /\ loc.inter = <<>>

RECURSIVE ChainsFrom(_, _)
\* The chains taken from the list named from in the turns k.., one after
\* the other
ChainsFrom(from, k) ==
    IF k > Len(loc.chains) THEN <<>>
    ELSE (IF loc.chains[k].from = from THEN loc.chains[k].chain ELSE <<>>)
         \o ChainsFrom(from, k + 1)

\* Every edge of the list l0 is in exactly one chain or still in the list l
PlacedOnce(from, l0, l) ==
    /\ Len(l0) = Len(ChainsFrom(from, 1)) + Len(l)
    /\ \A e \in {l0[i] : i \in DOMAIN l0} :
            CountOf(l0, e) = CountOf(ChainsFrom(from, 1), e) + CountOf(l, e)

\* Each turn added to final all the edges of its chain, in order, or none
AllOrNone ==
    /\ \A i \in DOMAIN loc.chains :
            \/ loc.chains[i].nfinal = FinalBefore(i)
            \/ /\ loc.chains[i].nfinal = FinalBefore(i) + Len(loc.chains[i].chain)
               /\ SubSeq(loc.final, FinalBefore(i) + 1, loc.chains[i].nfinal)
                    = loc.chains[i].chain
    /\ Len(loc.final) = IF loc.chains = <<>> THEN 0
                        ELSE loc.chains[Len(loc.chains)].nfinal
    /\ \A i \in DOMAIN loc.chains : loc.chains[i].chain # <<>>

\* What holds at every turn of the chain loops
ChainLoopsInv ==
    InChainLoops =>
        /\ PlacedOnce("orig", loc.orig0, loc.orig)
        /\ PlacedOnce("inter", loc.inter0, loc.inter)
        /\ AllOrNone

\* C17: the chain loops of MakeCopyTrimAgainst end with orig and inter
\* empty; every edge of orig and of inter is placed in exactly one chain;
\* and before culling final holds all the edges of a chain or none of them.
C17_ChainLoopsTerminate ==
    /\ []ChainLoopsInv
    /\ InChainLoops ~> ChainLoopsDone

\* The loops have ended after a chain of two edges was dropped and chains
\* of orig and of inter were kept
C17_Witness ==
    /\ ChainLoopsDone
    /\ loc.inter0 # <<>>
    /\ \E i \in DOMAIN loc.chains : Len(loc.chains[i].chain) >= 2 /\ ~Added(i)
    /\ \E i \in DOMAIN loc.chains : loc.chains[i].from = "orig" /\ Added(i)
    /\ \E i \in InterTurns : Added(i)

=========================================================================
